---- MODULE Spec2Model ----
(***************************************************************************)
(* A model of src/libcollections/dlist.rs: the doubly-linked list DList,   *)
(* its private node operations, its bulk operations and its iterators.     *)
(*                                                                         *)
(* Memory is modelled explicitly.  A node address is a positive integer,   *)
(* the null Rawlink and the None Link are both 0.  An owning link          *)
(* (Option<Box<Node>>) and a raw back link (Rawlink) are both stored as an  *)
(* address; what distinguishes them is that overwriting or discarding an   *)
(* owning link releases the box it held (drop_box), and that resolving a   *)
(* raw link to a released node is undefined behaviour, recorded in `ub`.   *)
(*                                                                         *)
(* Operations are written as operators from a memory record                *)
(*   [node |-> heap, list |-> the DList values, ub |-> BOOLEAN]            *)
(* to a memory record (and a result), statement by statement as in the     *)
(* source; the actions at the end apply them to the variables.             *)
(***************************************************************************)
EXTENDS Integers, Sequences, FiniteSets, TLC

VARIABLES node, list, ub, it, ret, ref, call

vars == <<node, list, ub, it, ret, ref, call>>

(***************************************************************************)
(* Bounds of the model.                                                    *)
(***************************************************************************)
\* number of node addresses of the heap in the general specification
MaxNodes == 3
\* element values are 0..MaxVal
MaxVal == 1

Values == 0..MaxVal
ListIds == {"a", "b"}

(***************************************************************************)
(* Memory.                                                                 *)
(***************************************************************************)
Null == 0

\* Option<T>: None is the empty sequence, Some(v) the one-element sequence
None == <<>>
Some(v) == <<v>>

\* a released heap cell (its content is not observable without UB)
DeadNode == [next |-> Null, prev |-> Null, value |-> 0, live |-> FALSE]

\* Node::new
Node_new(v) == [next |-> Null, prev |-> Null, value |-> v, live |-> TRUE]

\* DList::new
DList_new == [length |-> 0, list_head |-> Null, list_tail |-> Null]

\* the memory record of the current state
Mem == [node |-> node, list |-> list, ub |-> ub]

\* undefined behaviour has happened
Bad(m) == [m EXCEPT !.ub = TRUE]

\* a raw link that is not null but whose node has been released
Dangling(m, p) == p # Null /\ ~m.node[p].live

FreeIds(m) == {p \in DOMAIN m.node : ~m.node[p].live}

\* `box Node::new(v)`: the allocator returns a free address (the lowest one:
\* the list never depends on which address it gets)
box_new(m, v) ==
    LET p == CHOOSE q \in FreeIds(m) : \A r \in FreeIds(m) : q <= r
    IN  [m |-> [m EXCEPT !.node[p] = Node_new(v)], r |-> p]

\* dropping an Option<Box<Node>>: releases the node and, through its `next`
\* field, every node it owns
RECURSIVE drop_box(_, _)
drop_box(m, p) ==
    IF p = Null THEN m
    ELSE IF ~m.node[p].live THEN Bad(m)
    ELSE drop_box([m EXCEPT !.node[p] = DeadNode], m.node[p].next)

\* assignment to the owning field `p.next`: the old value is dropped
set_next(m, p, q) ==
    LET old == m.node[p].next
    IN  drop_box([m EXCEPT !.node[p].next = q], old)

\* assignment to the owning field `list_head` of list l
set_head(m, l, q) ==
    LET old == m.list[l].list_head
    IN  drop_box([m EXCEPT !.list[l].list_head = q], old)

\* link_with_prev: set .prev on `next` (the caller stores the returned link)
link_with_prev(m, next, prev) == [m EXCEPT !.node[next].prev = prev]

(***************************************************************************)
(* Private node operations of DList.                                       *)
(***************************************************************************)
\* push_front_node without `head.prev = Rawlink::some(new_head)`: the old
\* head keeps its null back link
push_front_node_no_back_link(m, l, new_head) ==
    LET head == m.list[l].list_head
        m1 == IF head = Null
              THEN LET a == [m EXCEPT !.list[l].list_tail = new_head]
                       b == link_with_prev(a, new_head, Null)
                   IN  set_head(b, l, new_head)
              ELSE LET a == [m EXCEPT !.node[new_head].prev = Null,
                                      !.list[l].list_head = new_head]
                   IN  set_next(a, new_head, head)
    IN  [m1 EXCEPT !.list[l].length = @ + 1]

push_front_node(m, l, new_head) ==
    LET head == m.list[l].list_head
        m1 == IF head = Null
              THEN LET a == [m EXCEPT !.list[l].list_tail = new_head]
                       b == link_with_prev(a, new_head, Null)
                   IN  set_head(b, l, new_head)
              ELSE \* new_head.prev = none; head.prev = some(new_head);
                   \* swap(head, new_head); head.next = Some(new_head)
                   LET a == [m EXCEPT !.node[new_head].prev = Null,
                                      !.node[head].prev = new_head,
                                      !.list[l].list_head = new_head]
                   IN  set_next(a, new_head, head)
    IN  [m1 EXCEPT !.list[l].length = @ + 1]

\* pop_front_node without `None => self.list_tail = Rawlink::none()`
pop_front_node_stale_tail(m, l) ==
    LET front == m.list[l].list_head
    IN  IF front = Null THEN [m |-> m, r |-> Null]
        ELSE LET nxt == m.node[front].next
                 a == [m EXCEPT !.list[l].list_head = Null,
                                !.list[l].length = @ - 1,
                                !.node[front].next = Null]
                 b == IF nxt # Null
                      THEN [link_with_prev(a, nxt, Null)
                               EXCEPT !.list[l].list_head = nxt]
                      ELSE a
             IN  [m |-> b, r |-> front]

\* pop_front_node with `self.length -= 1` taken out of the closure: the
\* length is decremented even when there is no front node
pop_front_node_counts_first(m, l) ==
    LET front == m.list[l].list_head
    IN  IF front = Null
        THEN [m |-> [m EXCEPT !.list[l].length = @ - 1], r |-> Null]
        ELSE LET nxt == m.node[front].next
                 a == [m EXCEPT !.list[l].list_head = Null,
                                !.list[l].length = @ - 1,
                                !.node[front].next = Null]
                 b == IF nxt # Null
                      THEN [link_with_prev(a, nxt, Null)
                               EXCEPT !.list[l].list_head = nxt]
                      ELSE [a EXCEPT !.list[l].list_tail = Null]
             IN  [m |-> b, r |-> front]

pop_front_node(m, l) ==
    LET front == m.list[l].list_head
    IN  IF front = Null THEN [m |-> m, r |-> Null]
        ELSE LET nxt == m.node[front].next
                 a == [m EXCEPT !.list[l].list_head = Null,
                                !.list[l].length = @ - 1,
                                !.node[front].next = Null]
                 b == IF nxt # Null
                      THEN [link_with_prev(a, nxt, Null)
                               EXCEPT !.list[l].list_head = nxt]
                      ELSE [a EXCEPT !.list[l].list_tail = Null]
             IN  [m |-> b, r |-> front]

push_back_node(m, l, new_tail) ==
    LET tail == m.list[l].list_tail
    IN  IF tail = Null THEN push_front_node(m, l, new_tail)
        ELSE IF Dangling(m, tail) THEN Bad(m)
        ELSE LET a == [m EXCEPT !.list[l].list_tail = new_tail]
                 b == link_with_prev(a, new_tail, tail)
                 c == set_next(b, tail, new_tail)
             IN  [c EXCEPT !.list[l].length = @ + 1]

\* pop_back_node that always takes the list head, whatever tail.prev is
pop_back_node_takes_head(m, l) ==
    LET tail == m.list[l].list_tail
    IN  IF tail = Null THEN [m |-> m, r |-> Null]
        ELSE IF Dangling(m, tail) THEN [m |-> Bad(m), r |-> Null]
        ELSE LET tp == m.node[tail].prev
                 a == [m EXCEPT !.list[l].length = @ - 1,
                                !.list[l].list_tail = tp]
             IN  [m |-> [a EXCEPT !.list[l].list_head = Null],
                  r |-> m.list[l].list_head]

pop_back_node(m, l) ==
    LET tail == m.list[l].list_tail
    IN  IF tail = Null THEN [m |-> m, r |-> Null]
        ELSE IF Dangling(m, tail) THEN [m |-> Bad(m), r |-> Null]
        ELSE LET tp == m.node[tail].prev
                 a == [m EXCEPT !.list[l].length = @ - 1,
                                !.list[l].list_tail = tp]
             IN  IF tp = Null
                 THEN [m |-> [a EXCEPT !.list[l].list_head = Null],
                       r |-> m.list[l].list_head]
                 ELSE IF Dangling(a, tp) THEN [m |-> Bad(a), r |-> Null]
                 ELSE [m |-> [a EXCEPT !.node[tp].next = Null],
                       r |-> m.node[tp].next]

\* insert_after_node that stores Some(next_node) without link_with_prev:
\* the successor's prev still refers to `node`
insert_after_node_stale_prev(m, l, link, ins_node) ==
    IF link = Null THEN push_front_node(m, l, ins_node)
    ELSE IF Dangling(m, link) THEN Bad(m)
    ELSE LET next_node == m.node[link].next
             a == [m EXCEPT !.node[link].next = Null]
         IN  IF next_node = Null THEN push_back_node(a, l, ins_node)
             ELSE LET c == set_next(a, ins_node, next_node)
                      d == link_with_prev(c, ins_node, link)
                      e == set_next(d, link, ins_node)
                  IN  [e EXCEPT !.list[l].length = @ + 1]

\* insert_after_node without `self.length += 1`
insert_after_node_no_count(m, l, link, ins_node) ==
    IF link = Null THEN push_front_node(m, l, ins_node)
    ELSE IF Dangling(m, link) THEN Bad(m)
    ELSE LET next_node == m.node[link].next
             a == [m EXCEPT !.node[link].next = Null]
         IN  IF next_node = Null THEN push_back_node(a, l, ins_node)
             ELSE LET b == link_with_prev(a, next_node, ins_node)
                      c == set_next(b, ins_node, next_node)
                      d == link_with_prev(c, ins_node, link)
                  IN  set_next(d, link, ins_node)

insert_after_node(m, l, link, ins_node) ==
    IF link = Null THEN push_front_node(m, l, ins_node)
    ELSE IF Dangling(m, link) THEN Bad(m)
    ELSE LET next_node == m.node[link].next
             a == [m EXCEPT !.node[link].next = Null]
         IN  IF next_node = Null THEN push_back_node(a, l, ins_node)
             ELSE LET b == link_with_prev(a, next_node, ins_node)
                      c == set_next(b, ins_node, next_node)
                      d == link_with_prev(c, ins_node, link)
                      e == set_next(d, link, ins_node)
                  IN  [e EXCEPT !.list[l].length = @ + 1]

\* insert_before_node passing `link` itself to insert_after_node instead of
\* `node.prev`
insert_before_node_after_link(m, l, link, ins_node) ==
    IF link = Null THEN push_back_node(m, l, ins_node)
    ELSE IF Dangling(m, link) THEN Bad(m)
    ELSE insert_after_node(m, l, link, ins_node)

\* insert_before_node putting the node first when the link is null
insert_before_node_null_to_front(m, l, link, ins_node) ==
    IF link = Null THEN push_front_node(m, l, ins_node)
    ELSE IF Dangling(m, link) THEN Bad(m)
    ELSE insert_after_node(m, l, m.node[link].prev, ins_node)

insert_before_node(m, l, link, ins_node) ==
    IF link = Null THEN push_back_node(m, l, ins_node)
    ELSE IF Dangling(m, link) THEN Bad(m)
    ELSE insert_after_node(m, l, m.node[link].prev, ins_node)

\* head_raw / as_raw(&self.list_head)
head_raw(m, l) == m.list[l].list_head

(***************************************************************************)
(* Drop for DList: dissolve the list backwards, then reset the fields.     *)
(***************************************************************************)
\* the loop body without `prev.next.take()`: the walk releases nothing
drop_step_takes_nothing(m, tail) ==
    IF Dangling(m, tail) THEN [m |-> Bad(m), tail |-> Null]
    ELSE [m |-> m, tail |-> m.node[tail].prev]

\* one turn of the loop at a non-null `tail`: `prev.next.take()` releases the
\* box behind the node's next link, then `tail = prev.prev`
drop_step(m, tail) ==
    IF Dangling(m, tail) THEN [m |-> Bad(m), tail |-> Null]
    ELSE [m |-> set_next(m, tail, Null), tail |-> m.node[tail].prev]

RECURSIVE drop_loop(_, _)
drop_loop(m, tail) ==
    IF tail = Null THEN m
    ELSE LET s == drop_step(m, tail)
         IN  IF s.m.ub THEN s.m ELSE drop_loop(s.m, s.tail)

\* the three assignments after the loop, without `self.list_head = None`
drop_reset_keeps_head(m, l) ==
    [m EXCEPT !.list[l].length = 0, !.list[l].list_tail = Null]

\* the three assignments after the loop
drop_reset(m, l) ==
    LET b == set_head(m, l, Null)
    IN  [b EXCEPT !.list[l].length = 0, !.list[l].list_tail = Null]

drop_list(m, l) == drop_reset(drop_loop(m, m.list[l].list_tail), l)

(***************************************************************************)
(* Deque / MutableSeq: the public push and pop.  A result is               *)
(* [m |-> memory, r |-> Option<T>].                                        *)
(***************************************************************************)
\* `.map(|box Node{value, ..}| value)`: the value is moved out, the rest of
\* the node (its next link) is dropped and the box released
unbox_value(m, p) ==
    IF p = Null THEN [m |-> m, r |-> None]
    ELSE [m |-> drop_box(m, p), r |-> Some(m.node[p].value)]

front(m, l) ==
    IF m.list[l].list_head = Null THEN None
    ELSE Some(m.node[m.list[l].list_head].value)

back(m, l) ==
    LET tail == m.list[l].list_tail
    IN  IF tail = Null \/ Dangling(m, tail) THEN None
        ELSE Some(m.node[tail].value)

push_front(m, l, elt) ==
    LET n == box_new(m, elt) IN push_front_node(n.m, l, n.r)

pop_front(m, l) ==
    LET p == pop_front_node(m, l) IN unbox_value(p.m, p.r)

push(m, l, elt) ==
    LET n == box_new(m, elt) IN push_back_node(n.m, l, n.r)

pop(m, l) ==
    LET p == pop_back_node(m, l) IN unbox_value(p.m, p.r)

\* Extendable::extend: `for elt in iterator { self.push(elt) }`
RECURSIVE extend(_, _, _)
extend(m, l, xs) ==
    IF xs = <<>> THEN m ELSE extend(push(m, l, Head(xs)), l, Tail(xs))

\* Collection
is_empty(m, l) == m.list[l].list_head = Null
len(m, l) == m.list[l].length

\* Mutable::clear: `*self = DList::new()` drops the old list
clear(m, l) == drop_list(m, l)

(***************************************************************************)
(* rotate, append, prepend.                                                *)
(***************************************************************************)
\* rotate_forward that puts the popped node back where it was taken
rotate_forward_pushes_back(m, l) ==
    LET p == pop_back_node(m, l)
    IN  IF p.r = Null THEN p.m ELSE push_back_node(p.m, l, p.r)

rotate_forward(m, l) ==
    LET p == pop_back_node(m, l)
    IN  IF p.r = Null THEN p.m ELSE push_front_node(p.m, l, p.r)

\* rotate_backward that takes its node from the back, as rotate_forward does
rotate_backward_pops_back(m, l) ==
    LET p == pop_back_node(m, l)
    IN  IF p.r = Null THEN p.m ELSE push_back_node(p.m, l, p.r)

rotate_backward(m, l) ==
    LET p == pop_front_node(m, l)
    IN  IF p.r = Null THEN p.m ELSE push_back_node(p.m, l, p.r)

\* append without `self.length += o_length`
append_no_length(m, self, other) ==
    LET tail == m.list[self].list_tail
    IN  IF tail = Null
        THEN LET a == drop_list(m, self)
             IN  [a EXCEPT !.list[self] = m.list[other],
                           !.list[other] = DList_new]
        ELSE IF Dangling(m, tail) THEN Bad(m)
        ELSE LET o_tail == m.list[other].list_tail
                 node_ == m.list[other].list_head
                 a == [m EXCEPT !.list[other].list_tail = Null,
                                !.list[other].list_head = Null]
             IN  IF node_ = Null THEN drop_list(a, other)
                 ELSE LET b == link_with_prev(a, node_, a.list[self].list_tail)
                          c == set_next(b, tail, node_)
                          d == [c EXCEPT !.list[self].list_tail = o_tail]
                      IN  drop_list(d, other)

\* append that copies other.list_tail instead of taking it: `other` still
\* refers to its old tail when it is dropped
append_keeps_other_tail(m, self, other) ==
    LET tail == m.list[self].list_tail
    IN  IF tail = Null
        THEN LET a == drop_list(m, self)
             IN  [a EXCEPT !.list[self] = m.list[other],
                           !.list[other] = DList_new]
        ELSE IF Dangling(m, tail) THEN Bad(m)
        ELSE LET o_tail == m.list[other].list_tail
                 o_length == m.list[other].length
                 node_ == m.list[other].list_head
                 a == [m EXCEPT !.list[other].list_head = Null]
             IN  IF node_ = Null THEN drop_list(a, other)
                 ELSE LET b == link_with_prev(a, node_, a.list[self].list_tail)
                          c == set_next(b, tail, node_)
                          d == [c EXCEPT !.list[self].list_tail = o_tail,
                                         !.list[self].length = @ + o_length]
                      IN  drop_list(d, other)

\* append without `self.list_tail = o_tail`
append_old_tail(m, self, other) ==
    LET tail == m.list[self].list_tail
    IN  IF tail = Null
        THEN LET a == drop_list(m, self)
             IN  [a EXCEPT !.list[self] = m.list[other],
                           !.list[other] = DList_new]
        ELSE IF Dangling(m, tail) THEN Bad(m)
        ELSE LET o_length == m.list[other].length
                 node_ == m.list[other].list_head
                 a == [m EXCEPT !.list[other].list_tail = Null,
                                !.list[other].list_head = Null]
             IN  IF node_ = Null THEN drop_list(a, other)
                 ELSE LET b == link_with_prev(a, node_, a.list[self].list_tail)
                          c == set_next(b, tail, node_)
                          d == [c EXCEPT !.list[self].length = @ + o_length]
                      IN  drop_list(d, other)

\* self.append(other).  `other` is passed by value: where the body does not
\* move it into *self, it is dropped when the function returns.  A list that
\* has been moved out of is represented by DList::new().
append(m, self, other) ==
    LET tail == m.list[self].list_tail
    IN  IF tail = Null
        THEN \* *self = other
             LET a == drop_list(m, self)
             IN  [a EXCEPT !.list[self] = m.list[other],
                           !.list[other] = DList_new]
        ELSE IF Dangling(m, tail) THEN Bad(m)
        ELSE LET o_tail == m.list[other].list_tail
                 o_length == m.list[other].length
                 node_ == m.list[other].list_head
                 a == [m EXCEPT !.list[other].list_tail = Null,
                                !.list[other].list_head = Null]
             IN  IF node_ = Null THEN drop_list(a, other)
                 ELSE LET b == link_with_prev(a, node_, a.list[self].list_tail)
                          c == set_next(b, tail, node_)
                          d == [c EXCEPT !.list[self].list_tail = o_tail,
                                         !.list[self].length = @ + o_length]
                      IN  drop_list(d, other)

\* prepend without the mem::swap
prepend_no_swap(m, self, other) == append(m, self, other)

\* mem::swap(self, &mut other); self.append(other)
prepend(m, self, other) ==
    LET a == [m EXCEPT !.list[self] = m.list[other],
                       !.list[other] = m.list[self]]
    IN  append(a, self, other)

(***************************************************************************)
(* MutItems: the mutable iterator.  An iterator value is                   *)
(*   [list, head, tail, nelem].                                            *)
(* A step returns [m |-> memory, i |-> iterator, r |-> address of the node *)
(* whose value is yielded, Null for None].                                 *)
(***************************************************************************)
mut_iter(m, l) ==
    [list |-> l, head |-> head_raw(m, l), tail |-> m.list[l].list_tail,
     nelem |-> len(m, l)]

MutItems_next(m, i) ==
    IF i.nelem = 0 \/ i.head = Null THEN [m |-> m, i |-> i, r |-> Null]
    ELSE IF Dangling(m, i.head) THEN [m |-> Bad(m), i |-> i, r |-> Null]
    ELSE [m |-> m,
          i |-> [i EXCEPT !.nelem = @ - 1, !.head = m.node[i.head].next],
          r |-> i.head]

MutItems_next_back(m, i) ==
    IF i.nelem = 0 \/ i.tail = Null THEN [m |-> m, i |-> i, r |-> Null]
    ELSE IF Dangling(m, i.tail) THEN [m |-> Bad(m), i |-> i, r |-> Null]
    ELSE [m |-> m,
          i |-> [i EXCEPT !.nelem = @ - 1, !.tail = m.node[i.tail].prev],
          r |-> i.tail]

peek_next(m, i) ==
    IF i.nelem = 0 \/ i.head = Null THEN [m |-> m, r |-> Null]
    ELSE IF Dangling(m, i.head) THEN [m |-> Bad(m), r |-> Null]
    ELSE [m |-> m, r |-> i.head]

\* insert_next_node placing the node after the cursor's node instead of
\* before it
insert_next_node_after(m, i, ins_node) ==
    [m |-> insert_after_node(m, i.list, i.head, ins_node), i |-> i]

\* the iterator is borrowed mutably but none of its fields is assigned
insert_next_node(m, i, ins_node) ==
    [m |-> insert_before_node(m, i.list, i.head, ins_node), i |-> i]

insert_next(m, i, elt) ==
    LET n == box_new(m, elt) IN insert_next_node(n.m, i, n.r)

(***************************************************************************)
(* Items: the read-only iterator.  An iterator value is [head, tail, nelem];*)
(* a step returns [m |-> memory, i |-> iterator, r |-> address of the node *)
(* whose value is yielded, Null for None].                                 *)
(***************************************************************************)
iter(m, l) ==
    [head |-> head_raw(m, l), tail |-> m.list[l].list_tail,
     nelem |-> len(m, l)]

Items_next(m, i) ==
    IF i.nelem = 0 THEN [m |-> m, i |-> i, r |-> Null]
    ELSE IF i.head = Null THEN [m |-> m, i |-> i, r |-> Null]
    ELSE IF Dangling(m, i.head) THEN [m |-> Bad(m), i |-> i, r |-> Null]
    ELSE [m |-> m,
          i |-> [i EXCEPT !.nelem = @ - 1, !.head = m.node[i.head].next],
          r |-> i.head]

\* Items::next_back without `if self.nelem == 0 { return None; }`
Items_next_back_no_count(m, i) ==
    IF i.tail = Null THEN [m |-> m, i |-> i, r |-> Null]
    ELSE IF Dangling(m, i.tail) THEN [m |-> Bad(m), i |-> i, r |-> Null]
    ELSE [m |-> m,
          i |-> [i EXCEPT !.nelem = @ - 1, !.tail = m.node[i.tail].prev],
          r |-> i.tail]

Items_next_back(m, i) ==
    IF i.nelem = 0 THEN [m |-> m, i |-> i, r |-> Null]
    ELSE IF i.tail = Null THEN [m |-> m, i |-> i, r |-> Null]
    ELSE IF Dangling(m, i.tail) THEN [m |-> Bad(m), i |-> i, r |-> Null]
    ELSE [m |-> m,
          i |-> [i EXCEPT !.nelem = @ - 1, !.tail = m.node[i.tail].prev],
          r |-> i.tail]

\* Items::size_hint and MutItems::size_hint: (nelem, Some(nelem))
size_hint(i) == <<i.nelem, Some(i.nelem)>>

\* Items::prev without `self.nelem += 1`
Items_prev_no_count(m, i) ==
    IF i.head = Null THEN [m |-> m, i |-> i, r |-> Null]
    ELSE IF Dangling(m, i.head) THEN [m |-> Bad(m), i |-> i, r |-> Null]
    ELSE LET prev_raw == m.node[i.head].prev
         IN  IF prev_raw = Null THEN [m |-> m, i |-> i, r |-> Null]
             ELSE IF Dangling(m, prev_raw)
             THEN [m |-> Bad(m), i |-> i, r |-> Null]
             ELSE [m |-> m, i |-> [i EXCEPT !.head = prev_raw],
                   r |-> prev_raw]

Items_prev(m, i) ==
    IF i.head = Null THEN [m |-> m, i |-> i, r |-> Null]
    ELSE IF Dangling(m, i.head) THEN [m |-> Bad(m), i |-> i, r |-> Null]
    ELSE LET prev_raw == m.node[i.head].prev
         IN  IF prev_raw = Null THEN [m |-> m, i |-> i, r |-> Null]
             ELSE IF Dangling(m, prev_raw)
             THEN [m |-> Bad(m), i |-> i, r |-> Null]
             ELSE [m |-> m,
                   i |-> [i EXCEPT !.head = prev_raw, !.nelem = @ + 1],
                   r |-> prev_raw]

Items_prev_back(m, i) ==
    IF i.tail = Null THEN [m |-> m, i |-> i, r |-> Null]
    ELSE IF Dangling(m, i.tail) THEN [m |-> Bad(m), i |-> i, r |-> Null]
    ELSE LET prev_raw == m.node[i.tail].next
         IN  IF prev_raw = Null THEN [m |-> m, i |-> i, r |-> Null]
             ELSE IF Dangling(m, prev_raw)
             THEN [m |-> Bad(m), i |-> i, r |-> Null]
             ELSE [m |-> m,
                   i |-> [i EXCEPT !.tail = prev_raw, !.nelem = @ + 1],
                   r |-> prev_raw]

\* the iterator left by `for elt in it`: next() has returned None
RECURSIVE Items_drain(_, _)
Items_drain(m, i) ==
    LET s == Items_next(m, i)
    IN  IF s.r = Null THEN s.i ELSE Items_drain(s.m, s.i)

\* `for elt in it`: the nodes yielded by next() until it returns None
RECURSIVE Items_collect(_, _)
Items_collect(m, i) ==
    LET s == Items_next(m, i)
    IN  IF s.r = Null THEN <<>> ELSE <<s.r>> \o Items_collect(s.m, s.i)

\* `for elt in it.rev()`: the nodes yielded by next_back() until None
RECURSIVE Items_rev_collect(_, _)
Items_rev_collect(m, i) ==
    LET s == Items_next_back(m, i)
    IN  IF s.r = Null THEN <<>> ELSE <<s.r>> \o Items_rev_collect(s.m, s.i)

\* the same two loops over a MutItems
RECURSIVE MutItems_collect(_, _)
MutItems_collect(m, i) ==
    LET s == MutItems_next(m, i)
    IN  IF s.r = Null THEN <<>> ELSE <<s.r>> \o MutItems_collect(s.m, s.i)

RECURSIVE MutItems_rev_collect(_, _)
MutItems_rev_collect(m, i) ==
    LET s == MutItems_next_back(m, i)
    IN  IF s.r = Null THEN <<>>
        ELSE <<s.r>> \o MutItems_rev_collect(s.m, s.i)

(***************************************************************************)
(* MoveItems: the consuming iterator.  It holds the list itself (by value);*)
(* an iterator value is [list |-> the list it owns].  A step returns       *)
(* [m |-> memory, r |-> Option<T>].                                        *)
(***************************************************************************)
move_iter(m, l) == [list |-> l]

MoveItems_next(m, i) == pop_front(m, i.list)

\* MoveItems::next_back popping from the front, as next does
MoveItems_next_back_pops_front(m, i) == pop_front(m, i.list)

MoveItems_next_back(m, i) == pop(m, i.list)

MoveItems_size_hint(m, i) ==
    <<m.list[i.list].length, Some(m.list[i.list].length)>>

\* `it.collect::<Vec<A>>()` on a MoveItems: the values popped from the front
\* until next() returns None; r is the sequence of values
RECURSIVE MoveItems_collect(_, _)
MoveItems_collect(m, i) ==
    LET s == MoveItems_next(m, i)
    IN  IF s.r = None \/ s.m.ub THEN [m |-> s.m, r |-> <<>>]
        ELSE LET t == MoveItems_collect(s.m, i)
             IN  [m |-> t.m, r |-> s.r \o t.r]

(***************************************************************************)
(* FromIterator, Clone.  The new list is built in the slot l, which holds  *)
(* no list when the call is made.                                          *)
(***************************************************************************)
\* from_iter pushing every element to the front
from_iter_pushes_front(m, l, xs) ==
    LET f[k \in 0..Len(xs)] ==
            IF k = 0 THEN [m EXCEPT !.list[l] = DList_new]
            ELSE push_front(f[k - 1], l, xs[k])
    IN  f[Len(xs)]

from_iter(m, l, xs) == extend([m EXCEPT !.list[l] = DList_new], l, xs)

\* `self.iter().map(|x| x.clone()).collect()`, the copy built in slot l
clone(m, self, l) ==
    LET ps == Items_collect(m, iter(m, self))
    IN  from_iter(m, l, [k \in 1..Len(ps) |-> m.node[ps[k]].value])

\* `list.move_iter().collect::<Vec<A>>()` followed by `.move_iter().collect()`
\* into a new list: the MoveItems and the list it owns go away once drained
round_trip(m, l) ==
    LET d == MoveItems_collect(m, move_iter(m, l))
    IN  from_iter(drop_list(d.m, l), l, d.r)

(***************************************************************************)
(* PartialEq, PartialOrd, Ord, Hash.  The element type is int or f64; the  *)
(* f64 not-a-number is written NaN here, every other element is a number.  *)
(* The element comparisons, iter::order and the provided methods of        *)
(* PartialOrd are library code; an Ordering is "Less", "Equal" or          *)
(* "Greater", and partial_cmp returns an Option of it.                     *)
(***************************************************************************)
NaN == -1

elt_eq(x, y) == x # NaN /\ y # NaN /\ x = y
elt_ne(x, y) == ~elt_eq(x, y)

\* Ord::cmp of the element type (int: there is no NaN)
elt_cmp(x, y) == IF x < y THEN "Less" ELSE IF x = y THEN "Equal" ELSE "Greater"

elt_partial_cmp(x, y) ==
    IF x = NaN \/ y = NaN THEN None ELSE Some(elt_cmp(x, y))

\* iter::order::eq
RECURSIVE order_eq(_, _, _)
order_eq(m, a, b) ==
    LET x == Items_next(m, a)
        y == Items_next(m, b)
    IN  IF x.r = Null /\ y.r = Null THEN TRUE
        ELSE IF x.r = Null \/ y.r = Null THEN FALSE
        ELSE IF ~elt_eq(m.node[x.r].value, m.node[y.r].value) THEN FALSE
        ELSE order_eq(m, x.i, y.i)

\* iter::order::ne
RECURSIVE order_ne(_, _, _)
order_ne(m, a, b) ==
    LET x == Items_next(m, a)
        y == Items_next(m, b)
    IN  IF x.r = Null /\ y.r = Null THEN FALSE
        ELSE IF x.r = Null \/ y.r = Null THEN TRUE
        ELSE IF elt_ne(m.node[x.r].value, m.node[y.r].value) THEN TRUE
        ELSE order_ne(m, x.i, y.i)

\* iter::order::partial_cmp
RECURSIVE order_partial_cmp(_, _, _)
order_partial_cmp(m, a, b) ==
    LET x == Items_next(m, a)
        y == Items_next(m, b)
    IN  IF x.r = Null /\ y.r = Null THEN Some("Equal")
        ELSE IF x.r = Null THEN Some("Less")
        ELSE IF y.r = Null THEN Some("Greater")
        ELSE LET c == elt_partial_cmp(m.node[x.r].value, m.node[y.r].value)
             IN  IF c = Some("Equal") THEN order_partial_cmp(m, x.i, y.i)
                 ELSE c

\* iter::order::cmp
RECURSIVE order_cmp(_, _, _)
order_cmp(m, a, b) ==
    LET x == Items_next(m, a)
        y == Items_next(m, b)
    IN  IF x.r = Null /\ y.r = Null THEN "Equal"
        ELSE IF x.r = Null THEN "Less"
        ELSE IF y.r = Null THEN "Greater"
        ELSE LET c == elt_cmp(m.node[x.r].value, m.node[y.r].value)
             IN  IF c = "Equal" THEN order_cmp(m, x.i, y.i) ELSE c

\* PartialEq::eq comparing the lengths only
eq_len_only(m, self, other) == len(m, self) = len(m, other)

eq(m, self, other) ==
    /\ len(m, self) = len(m, other)
    /\ order_eq(m, iter(m, self), iter(m, other))

ne(m, self, other) ==
    \/ len(m, self) # len(m, other)
    \/ order_ne(m, iter(m, self), iter(m, other))

\* PartialOrd::partial_cmp deciding by the lengths before the elements
partial_cmp_lengths_first(m, self, other) ==
    IF len(m, self) < len(m, other) THEN Some("Less")
    ELSE IF len(m, self) > len(m, other) THEN Some("Greater")
    ELSE order_partial_cmp(m, iter(m, self), iter(m, other))

\* PartialOrd::partial_cmp through the total comparison, which orders every
\* pair of elements
partial_cmp_total(m, self, other) ==
    Some(order_cmp(m, iter(m, self), iter(m, other)))

partial_cmp(m, self, other) ==
    order_partial_cmp(m, iter(m, self), iter(m, other))

cmp(m, self, other) == order_cmp(m, iter(m, self), iter(m, other))

\* the provided methods of PartialOrd: the operators <, <=, >, >=
lt(m, self, other) == partial_cmp(m, self, other) = Some("Less")
le(m, self, other) == partial_cmp(m, self, other) \in {Some("Less"), Some("Equal")}
gt(m, self, other) == partial_cmp(m, self, other) = Some("Greater")
ge(m, self, other) ==
    partial_cmp(m, self, other) \in {Some("Greater"), Some("Equal")}

\* Hash::hash: `state` is everything written to the hasher so far
RECURSIVE hash_elts(_, _, _)
hash_elts(m, i, state) ==
    LET s == Items_next(m, i)
    IN  IF s.r = Null THEN state
        ELSE hash_elts(m, s.i, Append(state, m.node[s.r].value))

\* Hash::hash without `self.len().hash(state)`
hash_no_len(m, l, state) == hash_elts(m, iter(m, l), state)

hash(m, l, state) == hash_elts(m, iter(m, l), Append(state, len(m, l)))

(***************************************************************************)
(* insert_when, insert_ordered, merge.  The closure argument f is one of   *)
(* the predicates of Preds.                                                *)
(***************************************************************************)
Preds == {"le", "lt", "ge", "always", "never"}

Holds(f, x, y) ==
    CASE f = "le" -> x <= y
      [] f = "lt" -> x < y
      [] f = "ge" -> x >= y
      [] f = "always" -> TRUE
      [] f = "never" -> FALSE

\* the scan loop of insert_when: the iterator where the loop breaks
RECURSIVE insert_when_loop(_, _, _, _)
insert_when_loop(m, i, elt, f) ==
    LET pk == peek_next(m, i)
    IN  IF pk.r = Null THEN [m |-> pk.m, i |-> i]
        ELSE IF Holds(f, pk.m.node[pk.r].value, elt) THEN [m |-> pk.m, i |-> i]
        ELSE LET nx == MutItems_next(pk.m, i)
             IN  IF nx.m.ub THEN [m |-> nx.m, i |-> nx.i]
                 ELSE insert_when_loop(nx.m, nx.i, elt, f)

\* insert_when whose scan also steps over the element that satisfied f
insert_when_past_match(m, l, elt, f) ==
    LET at == insert_when_loop(m, mut_iter(m, l), elt, f)
        nx == MutItems_next(at.m, at.i)
    IN  IF nx.m.ub THEN nx.m ELSE insert_next(nx.m, nx.i, elt).m

insert_when(m, l, elt, f) ==
    LET at == insert_when_loop(m, mut_iter(m, l), elt, f)
    IN  IF at.m.ub THEN at.m ELSE insert_next(at.m, at.i, elt).m

\* insert_ordered with the comparison turned round: |a, b| a <= b
insert_ordered_le(m, l, elt) == insert_when(m, l, elt, "le")

insert_ordered(m, l, elt) == insert_when(m, l, elt, "ge")

\* the loop body of merge that keeps self's element only when f holds and the
\* two elements differ: of two equal elements, other's is placed first
merge_iter_ties_to_other(m, i, other, f) ==
    LET pk == peek_next(m, i)
        y == pk.m.list[other].list_head
    IN  IF y = Null THEN [m |-> pk.m, i |-> i, ctl |-> "return"]
        ELSE IF pk.m.ub THEN [m |-> pk.m, i |-> i, ctl |-> "return"]
        ELSE IF pk.r = Null THEN [m |-> pk.m, i |-> i, ctl |-> "break"]
        ELSE IF /\ Holds(f, pk.m.node[pk.r].value, pk.m.node[y].value)
                /\ pk.m.node[pk.r].value # pk.m.node[y].value
        THEN LET nx == MutItems_next(pk.m, i)
             IN  [m |-> nx.m, i |-> nx.i, ctl |-> "loop"]
        ELSE LET p == pop_front_node(pk.m, other)
                 s == insert_next_node(p.m, i, p.r)
             IN  [m |-> s.m, i |-> s.i, ctl |-> "loop"]

\* the loop body of merge calling f(y, x) instead of f(x, y)
merge_iter_swapped_args(m, i, other, f) ==
    LET pk == peek_next(m, i)
        y == pk.m.list[other].list_head
    IN  IF y = Null THEN [m |-> pk.m, i |-> i, ctl |-> "return"]
        ELSE IF pk.m.ub THEN [m |-> pk.m, i |-> i, ctl |-> "return"]
        ELSE IF pk.r = Null THEN [m |-> pk.m, i |-> i, ctl |-> "break"]
        ELSE IF Holds(f, pk.m.node[y].value, pk.m.node[pk.r].value)
        THEN LET nx == MutItems_next(pk.m, i)
             IN  [m |-> nx.m, i |-> nx.i, ctl |-> "loop"]
        ELSE LET p == pop_front_node(pk.m, other)
                 s == insert_next_node(p.m, i, p.r)
             IN  [m |-> s.m, i |-> s.i, ctl |-> "loop"]

\* the loop body of merge that also steps the iterator after linking in the
\* node taken from other
merge_iter_steps_after_insert(m, i, other, f) ==
    LET pk == peek_next(m, i)
        y == pk.m.list[other].list_head
    IN  IF y = Null THEN [m |-> pk.m, i |-> i, ctl |-> "return"]
        ELSE IF pk.m.ub THEN [m |-> pk.m, i |-> i, ctl |-> "return"]
        ELSE IF pk.r = Null THEN [m |-> pk.m, i |-> i, ctl |-> "break"]
        ELSE IF Holds(f, pk.m.node[pk.r].value, pk.m.node[y].value)
        THEN LET nx == MutItems_next(pk.m, i)
             IN  [m |-> nx.m, i |-> nx.i, ctl |-> "loop"]
        ELSE LET p == pop_front_node(pk.m, other)
                 s == insert_next_node(p.m, i, p.r)
                 nx == MutItems_next(s.m, s.i)
             IN  [m |-> nx.m, i |-> nx.i, ctl |-> "loop"]

\* one iteration of the loop of merge: [m, i, ctl], where ctl is "loop",
\* "return" (the early return) or "break" (leave the loop and append)
merge_iter(m, i, other, f) ==
    LET pk == peek_next(m, i)
        y == pk.m.list[other].list_head
    IN  IF y = Null THEN [m |-> pk.m, i |-> i, ctl |-> "return"]
        ELSE IF pk.m.ub THEN [m |-> pk.m, i |-> i, ctl |-> "return"]
        ELSE IF pk.r = Null THEN [m |-> pk.m, i |-> i, ctl |-> "break"]
        ELSE IF Holds(f, pk.m.node[pk.r].value, pk.m.node[y].value)
        THEN LET nx == MutItems_next(pk.m, i)
             IN  [m |-> nx.m, i |-> nx.i, ctl |-> "loop"]
        ELSE LET p == pop_front_node(pk.m, other)
                 s == insert_next_node(p.m, i, p.r)
             IN  [m |-> s.m, i |-> s.i, ctl |-> "loop"]

RECURSIVE merge_loop(_, _, _, _)
merge_loop(m, i, other, f) ==
    LET s == merge_iter(m, i, other, f)
    IN  IF s.ctl = "loop" /\ ~s.m.ub THEN merge_loop(s.m, s.i, other, f)
        ELSE s

\* self.merge(other, f); `other` is passed by value: it is dropped at the
\* early return, and handed on to append otherwise
merge(m, self, other, f) ==
    LET s == merge_loop(m, mut_iter(m, self), other, f)
    IN  IF s.ctl = "break" THEN append(s.m, self, other)
        ELSE drop_list(s.m, other)

(***************************************************************************)
(* The linking operations, one statement at a time.  A point is the memory *)
(* after a statement together with `own`, the boxes held at that moment by *)
(* local variables and parameters (nodes in transit).  Each operator       *)
(* returns the points the function passes through, in order; `own` is what *)
(* the callers hold.  The last point is the state at return.               *)
(***************************************************************************)
Point(mem, held) == [m |-> mem, own |-> held]
Final(pts) == pts[Len(pts)]

push_front_node_points(m, l, new_head, own) ==
    LET head == m.list[l].list_head
    IN  IF head = Null
        THEN LET a == [m EXCEPT !.list[l].list_tail = new_head]
                 b == set_head(link_with_prev(a, new_head, Null), l, new_head)
                 c == [b EXCEPT !.list[l].length = @ + 1]
             IN  <<Point(a, Append(own, new_head)), Point(b, own),
                   Point(c, own)>>
        ELSE LET a == [m EXCEPT !.node[new_head].prev = Null]
                 b == [a EXCEPT !.node[head].prev = new_head]
                 \* mem::swap: the list owns the new node, the local the old
                 \* head
                 c == [b EXCEPT !.list[l].list_head = new_head]
                 d == set_next(c, new_head, head)
                 e == [d EXCEPT !.list[l].length = @ + 1]
             IN  <<Point(a, Append(own, new_head)),
                   Point(b, Append(own, new_head)),
                   Point(c, Append(own, head)), Point(d, own), Point(e, own)>>

push_back_node_points(m, l, new_tail, own) ==
    LET tail == m.list[l].list_tail
    IN  IF tail = Null THEN push_front_node_points(m, l, new_tail, own)
        ELSE IF Dangling(m, tail) THEN <<Point(Bad(m), own)>>
        ELSE LET a == [m EXCEPT !.list[l].list_tail = new_tail]
                 b == set_next(link_with_prev(a, new_tail, tail), tail,
                               new_tail)
                 c == [b EXCEPT !.list[l].length = @ + 1]
             IN  <<Point(a, Append(own, new_tail)), Point(b, own),
                   Point(c, own)>>

\* [pts, r]: r is the node returned (the last of `own` at the last point)
pop_front_node_points(m, l, own) ==
    LET front_node == m.list[l].list_head
    IN  IF front_node = Null THEN [pts |-> <<Point(m, own)>>, r |-> Null]
        ELSE LET nxt == m.node[front_node].next
                 held == Append(own, front_node)
                 a == [m EXCEPT !.list[l].list_head = Null]
                 b == [a EXCEPT !.list[l].length = @ - 1]
                 c == [b EXCEPT !.node[front_node].next = Null]
                 d == IF nxt # Null
                      THEN set_head(link_with_prev(c, nxt, Null), l, nxt)
                      ELSE [c EXCEPT !.list[l].list_tail = Null]
             IN  [pts |-> <<Point(a, held), Point(b, held),
                            Point(c, IF nxt # Null THEN Append(held, nxt)
                                     ELSE held),
                            Point(d, held)>>,
                  r |-> front_node]

\* pop_back_node returning the last node without taking it out of the link
\* that owns it
pop_back_node_points_keeps_link(m, l, own) ==
    LET tail == m.list[l].list_tail
    IN  IF tail = Null THEN [pts |-> <<Point(m, own)>>, r |-> Null]
        ELSE LET a == [m EXCEPT !.list[l].length = @ - 1]
                 b == [a EXCEPT !.list[l].list_tail = m.node[tail].prev]
             IN  [pts |-> <<Point(a, own), Point(b, own),
                            Point(b, Append(own, tail))>>,
                  r |-> tail]

pop_back_node_points(m, l, own) ==
    LET tail == m.list[l].list_tail
    IN  IF tail = Null THEN [pts |-> <<Point(m, own)>>, r |-> Null]
        ELSE IF Dangling(m, tail)
        THEN [pts |-> <<Point(Bad(m), own)>>, r |-> Null]
        ELSE LET tp == m.node[tail].prev
                 a == [m EXCEPT !.list[l].length = @ - 1]
                 b == [a EXCEPT !.list[l].list_tail = tp]
                 r == IF tp = Null THEN b.list[l].list_head
                      ELSE b.node[tp].next
                 c == IF tp = Null THEN [b EXCEPT !.list[l].list_head = Null]
                      ELSE [b EXCEPT !.node[tp].next = Null]
             IN  IF tp # Null /\ Dangling(b, tp)
                 THEN [pts |-> <<Point(Bad(b), own)>>, r |-> Null]
                 ELSE [pts |-> <<Point(a, own), Point(b, own),
                                 Point(c, Append(own, r))>>,
                       r |-> r]

insert_after_node_points(m, l, link, ins_node, own) ==
    IF link = Null THEN push_front_node_points(m, l, ins_node, own)
    ELSE IF Dangling(m, link) THEN <<Point(Bad(m), own)>>
    ELSE LET next_node == m.node[link].next
             a == [m EXCEPT !.node[link].next = Null]
         IN  IF next_node = Null
             THEN <<Point(a, Append(own, ins_node))>>
                      \o push_back_node_points(a, l, ins_node, own)
             ELSE LET b == set_next(link_with_prev(a, next_node, ins_node),
                                    ins_node, next_node)
                      c == set_next(link_with_prev(b, ins_node, link), link,
                                    ins_node)
                      d == [c EXCEPT !.list[l].length = @ + 1]
                  IN  <<Point(a, own \o <<ins_node, next_node>>),
                        Point(b, Append(own, ins_node)), Point(c, own),
                        Point(d, own)>>

insert_before_node_points(m, l, link, ins_node, own) ==
    IF link = Null THEN push_back_node_points(m, l, ins_node, own)
    ELSE IF Dangling(m, link) THEN <<Point(Bad(m), own)>>
    ELSE insert_after_node_points(m, l, m.node[link].prev, ins_node, own)

rotate_forward_points(m, l) ==
    LET p == pop_back_node_points(m, l, <<>>)
    IN  IF p.r = Null THEN p.pts
        ELSE p.pts \o push_front_node_points(Final(p.pts).m, l, p.r, <<>>)

rotate_backward_points(m, l) ==
    LET p == pop_front_node_points(m, l, <<>>)
    IN  IF p.r = Null THEN p.pts
        ELSE p.pts \o push_back_node_points(Final(p.pts).m, l, p.r, <<>>)

append_points(m, self, other) ==
    LET tail == m.list[self].list_tail
    IN  IF tail = Null
        THEN \* *self = other
             <<Point([drop_list(m, self) EXCEPT
                          !.list[self] = m.list[other],
                          !.list[other] = DList_new], <<>>)>>
        ELSE IF Dangling(m, tail) THEN <<Point(Bad(m), <<>>)>>
        ELSE LET o_tail == m.list[other].list_tail
                 o_length == m.list[other].length
                 node_ == m.list[other].list_head
                 a == [m EXCEPT !.list[other].list_tail = Null]
                 b == [a EXCEPT !.list[other].list_head = Null]
             IN  IF node_ = Null
                 THEN <<Point(a, <<>>), Point(b, <<>>),
                        Point(drop_list(b, other), <<>>)>>
                 ELSE LET c == set_next(link_with_prev(b, node_,
                                            b.list[self].list_tail),
                                        tail, node_)
                          d == [c EXCEPT !.list[self].list_tail = o_tail]
                          e == [d EXCEPT !.list[self].length = @ + o_length]
                      IN  <<Point(a, <<>>), Point(b, <<node_>>),
                            Point(c, <<>>), Point(d, <<>>), Point(e, <<>>),
                            Point(drop_list(e, other), <<>>)>>

prepend_points(m, self, other) ==
    LET a == [m EXCEPT !.list[self] = m.list[other],
                       !.list[other] = m.list[self]]
    IN  <<Point(a, <<>>)>> \o append_points(a, self, other)

insert_next_points(m, i, elt) ==
    LET n == box_new(m, elt)
    IN  <<Point(n.m, <<n.r>>)>>
            \o insert_before_node_points(n.m, i.list, i.head, n.r, <<>>)

insert_when_points(m, l, elt, f) ==
    LET at == insert_when_loop(m, mut_iter(m, l), elt, f)
    IN  IF at.m.ub THEN <<Point(at.m, <<>>)>>
        ELSE insert_next_points(at.m, at.i, elt)

RECURSIVE merge_loop_points(_, _, _, _)
merge_loop_points(m, i, other, f) ==
    LET pk == peek_next(m, i)
        y == pk.m.list[other].list_head
    IN  IF y = Null THEN <<Point(drop_list(pk.m, other), <<>>)>>
        ELSE IF pk.m.ub THEN <<Point(pk.m, <<>>)>>
        ELSE IF pk.r = Null THEN append_points(pk.m, i.list, other)
        ELSE IF Holds(f, pk.m.node[pk.r].value, pk.m.node[y].value)
        THEN LET nx == MutItems_next(pk.m, i)
             IN  <<Point(nx.m, <<>>)>>
                     \o (IF nx.m.ub THEN <<>>
                         ELSE merge_loop_points(nx.m, nx.i, other, f))
        ELSE LET p == pop_front_node_points(pk.m, other, <<>>)
                 s == insert_before_node_points(Final(p.pts).m, i.list,
                                                i.head, p.r, <<>>)
             IN  p.pts \o s
                     \o (IF Final(s).m.ub THEN <<>>
                         ELSE merge_loop_points(Final(s).m, i, other, f))

merge_points(m, self, other, f) ==
    merge_loop_points(m, mut_iter(m, self), other, f)

(***************************************************************************)
(* Observation: what a traversal of a list sees.                           *)
(***************************************************************************)
\* the addresses met by following `next` from p (at most k of them)
RECURSIVE NextChain(_, _, _)
NextChain(m, p, k) ==
    IF p = Null \/ k = 0 THEN <<>>
    ELSE <<p>> \o NextChain(m, m.node[p].next, k - 1)

\* the addresses met by following `prev` from p (at most k of them)
RECURSIVE PrevChain(_, _, _)
PrevChain(m, p, k) ==
    IF p = Null \/ k = 0 THEN <<>>
    ELSE <<p>> \o PrevChain(m, m.node[p].prev, k - 1)

HeapSize(m) == Cardinality(DOMAIN m.node)

\* forward traversal from the head: addresses, and values
FwdNodes(m, l) == NextChain(m, m.list[l].list_head, HeapSize(m) + 1)
ValuesOf(m, ps) == [k \in 1..Len(ps) |-> m.node[ps[k]].value]
FwdSeq(m, l) == ValuesOf(m, FwdNodes(m, l))

\* backward traversal from the tail
BackNodes(m, l) == PrevChain(m, m.list[l].list_tail, HeapSize(m) + 1)

Reverse(s) == [k \in 1..Len(s) |-> s[Len(s) + 1 - k]]
Range(s) == {s[k] : k \in 1..Len(s)}

(***************************************************************************)
(* State, and the actions: one per public operation.                       *)
(*   it   : the live mutable iterator, if any (kind "mut"), with the set   *)
(*          `ins` of the nodes inserted through it; the iteration          *)
(*          specification also has read-only ("imm") and consuming         *)
(*          ("move") iterators and records what they yielded               *)
(*   ret  : the Option returned by the last operation of the fuzz test     *)
(*   ref  : the reference deque of the fuzz test (a plain sequence) and    *)
(*          what its last operation returned                               *)
(*   call : for the specifications that run one operation on given inputs, *)
(*          the inputs and whether the operation has returned              *)
(***************************************************************************)
NoIter == [kind |-> "none", list |-> "a", head |-> Null, tail |-> Null,
           nelem |-> 0, ins |-> {}]

NoCall == [f |-> "le", xs |-> <<>>, ys |-> <<>>, a0 |-> <<>>, b0 |-> <<>>,
           done |-> TRUE]

Store(m) == node' = m.node /\ list' = m.list /\ ub' = m.ub

\* a list operation can run when nothing has gone wrong and no mutable
\* iterator is alive (a MutItems borrows its list exclusively; while one is
\* alive only the iterator's own operations are taken)
Idle == ~ub /\ it.kind = "none"
CanAlloc == FreeIds(Mem) # {}

EmptyHeap(n) == [p \in 1..n |-> DeadNode]

Init ==
    /\ node = EmptyHeap(MaxNodes)
    /\ list = [l \in ListIds |-> DList_new]
    /\ ub = FALSE
    /\ it = NoIter
    /\ ret = None
    /\ ref = [q |-> <<>>, r |-> None]
    /\ call = NoCall

PushFrontOp(l, v) ==
    /\ Idle /\ CanAlloc
    /\ Store(push_front(Mem, l, v))
    /\ UNCHANGED it

PushBackOp(l, v) ==
    /\ Idle /\ CanAlloc
    /\ Store(push(Mem, l, v))
    /\ UNCHANGED it

PopFrontOp(l) ==
    /\ Idle
    /\ Store(pop_front(Mem, l).m)
    /\ UNCHANGED it

PopBackOp(l) ==
    /\ Idle
    /\ Store(pop(Mem, l).m)
    /\ UNCHANGED it

PushFront == \E l \in ListIds, v \in Values : PushFrontOp(l, v) /\ UNCHANGED <<ret, ref, call>>
PushBack == \E l \in ListIds, v \in Values : PushBackOp(l, v) /\ UNCHANGED <<ret, ref, call>>
PopFront == \E l \in ListIds : PopFrontOp(l) /\ UNCHANGED <<ret, ref, call>>
PopBack == \E l \in ListIds : PopBackOp(l) /\ UNCHANGED <<ret, ref, call>>

RotateForward ==
    \E l \in ListIds :
        /\ Idle
        /\ Store(rotate_forward(Mem, l))
        /\ UNCHANGED <<it, ret, ref, call>>

RotateBackward ==
    \E l \in ListIds :
        /\ Idle
        /\ Store(rotate_backward(Mem, l))
        /\ UNCHANGED <<it, ret, ref, call>>

Clear ==
    \E l \in ListIds :
        /\ Idle
        /\ Store(clear(Mem, l))
        /\ UNCHANGED <<it, ret, ref, call>>

AppendList ==
    \E self \in ListIds, other \in ListIds :
        /\ Idle /\ self # other
        /\ Store(append(Mem, self, other))
        /\ UNCHANGED <<it, ret, ref, call>>

PrependList ==
    \E self \in ListIds, other \in ListIds :
        /\ Idle /\ self # other
        /\ Store(prepend(Mem, self, other))
        /\ UNCHANGED <<it, ret, ref, call>>

InsertWhen ==
    \E l \in ListIds, v \in Values, f \in Preds :
        /\ Idle /\ CanAlloc
        /\ Store(insert_when(Mem, l, v, f))
        /\ UNCHANGED <<it, ret, ref, call>>

InsertOrdered ==
    \E l \in ListIds, v \in Values :
        /\ Idle /\ CanAlloc
        /\ Store(insert_ordered(Mem, l, v))
        /\ UNCHANGED <<it, ret, ref, call>>

Merge ==
    \E self \in ListIds, other \in ListIds, f \in Preds :
        /\ Idle /\ self # other
        /\ Store(merge(Mem, self, other, f))
        /\ UNCHANGED <<it, ret, ref, call>>

\* let mut it = l.mut_iter()
MutIter ==
    \E l \in ListIds :
        /\ Idle
        /\ it' = [kind |-> "mut", ins |-> {}] @@ mut_iter(Mem, l)
        /\ UNCHANGED <<node, list, ub, ret, ref, call>>

Cursor(i) == [list |-> i.list, head |-> i.head, tail |-> i.tail, nelem |-> i.nelem]
WithCursor(i, c) == [i EXCEPT !.head = c.head, !.tail = c.tail, !.nelem = c.nelem]
ItNext ==
    /\ ~ub /\ it.kind = "mut"
    /\ LET s == MutItems_next(Mem, Cursor(it))
       IN  /\ Store(s.m)
           /\ it' = WithCursor(it, s.i)
    /\ UNCHANGED <<ret, ref, call>>

ItNextBack ==
    /\ ~ub /\ it.kind = "mut"
    /\ LET s == MutItems_next_back(Mem, Cursor(it))
       IN  /\ Store(s.m)
           /\ it' = WithCursor(it, s.i)
    /\ UNCHANGED <<ret, ref, call>>

ItPeekNext ==
    /\ ~ub /\ it.kind = "mut"
    /\ LET s == peek_next(Mem, Cursor(it))
       IN  /\ Store(s.m)
    /\ UNCHANGED <<it, ret, ref, call>>

ItInsertNext ==
    \E v \in Values :
        /\ ~ub /\ it.kind = "mut" /\ CanAlloc
        /\ LET s == insert_next(Mem, Cursor(it), v)
           IN  /\ Store(s.m)
               /\ it' = [WithCursor(it, s.i) EXCEPT
                             !.ins = @ \cup {box_new(Mem, v).r}]
        /\ UNCHANGED <<ret, ref, call>>

\* the iterator goes out of scope
ItDrop ==
    /\ ~ub /\ it.kind = "mut"
    /\ it' = NoIter
    /\ UNCHANGED <<node, list, ub, ret, ref, call>>

Next ==
    \/ PushFront \/ PushBack \/ PopFront \/ PopBack
    \/ RotateForward \/ RotateBackward \/ Clear
    \/ AppendList \/ PrependList
    \/ InsertWhen \/ InsertOrdered \/ Merge
    \/ MutIter \/ ItNext \/ ItNextBack \/ ItPeekNext \/ ItInsertNext \/ ItDrop

Spec == Init /\ [][Next]_vars

(***************************************************************************)
(* The fuzz test: push and pop at either end of one list, mirrored on a    *)
(* plain sequence (the Vec of fuzz_test).                                  *)
(***************************************************************************)
Last(q) == q[Len(q)]
Front(q) == SubSeq(q, 1, Len(q) - 1)

\* v.unshift(x), v.push(x), v.shift(), v.pop() of the reference Vec
RefPushFront(v) == ref' = [q |-> <<v>> \o ref.q, r |-> None]
RefPushBack(v) == ref' = [q |-> ref.q \o <<v>>, r |-> None]
RefPopFront ==
    ref' = IF ref.q = <<>> THEN [q |-> <<>>, r |-> None]
           ELSE [q |-> Tail(ref.q), r |-> Some(Head(ref.q))]
RefPopBack ==
    ref' = IF ref.q = <<>> THEN [q |-> <<>>, r |-> None]
           ELSE [q |-> Front(ref.q), r |-> Some(Last(ref.q))]

FuzzPushFront ==
    \E v \in Values : /\ PushFrontOp("a", v) /\ ret' = None
                      /\ RefPushFront(v) /\ UNCHANGED call
FuzzPushBack ==
    \E v \in Values : /\ PushBackOp("a", v) /\ ret' = None
                      /\ RefPushBack(v) /\ UNCHANGED call
FuzzPopFront ==
    /\ PopFrontOp("a") /\ ret' = pop_front(Mem, "a").r
    /\ RefPopFront /\ UNCHANGED call
FuzzPopBack ==
    /\ PopBackOp("a") /\ ret' = pop(Mem, "a").r
    /\ RefPopBack /\ UNCHANGED call

NextDeque == FuzzPushFront \/ FuzzPushBack \/ FuzzPopFront \/ FuzzPopBack

SpecDeque == Init /\ [][NextDeque]_vars

(***************************************************************************)
(* Properties.                                                             *)
(***************************************************************************)

\* C1: under any sequence of push_front, push_back, pop_front and pop_back
\* on a list that starts empty, the forward element sequence of the list
\* equals the reference sequence after every step, and every pop returned
\* what the reference pop returned.
C1_DequeRefinement ==
    /\ ~ub
    /\ FwdSeq(Mem, "a") = ref.q
    /\ ret = ref.r

\* a pop has returned a value from the middle of a run: two elements remain
C1_Witness ==
    /\ ret # None
    /\ Len(ref.q) >= 2
    /\ FwdSeq(Mem, "a") = ref.q

\* every node met on the forward traversal of l is allocated
ChainLive(m, l) == \A p \in Range(FwdNodes(m, l)) : m.node[p].live

\* the head's prev is null, and every successor's prev is its predecessor
PrevLinksOk(m, l) ==
    LET ps == FwdNodes(m, l)
    IN  /\ ChainLive(m, l)
        /\ ps # <<>> => m.node[ps[1]].prev = Null
        /\ \A k \in 1..(Len(ps) - 1) : m.node[ps[k + 1]].prev = ps[k]

\* C2: after every public mutating operation the head node's prev is absent
\* and for every node n whose next is m, m.prev refers to n.
C2_PrevLinks == ~ub /\ \A l \in ListIds : PrevLinksOk(Mem, l)

\* an insert_next has linked a node between two others
C2_Witness ==
    /\ it.kind = "mut"
    /\ \E n \in it.ins : node[n].prev # Null /\ node[n].next # Null
                         /\ node[node[n].next].prev = n

\* C3: after any sequence of operations the stored length equals the number
\* of nodes reachable by following next from the head.
C3_LengthIsCount ==
    ~ub /\ \A l \in ListIds : len(Mem, l) = Len(FwdNodes(Mem, l))

\* both lists hold nodes, one of them grown through insert_next
C3_Witness ==
    /\ it.kind = "mut" /\ it.ins # {}
    /\ len(Mem, it.list) >= 2
    /\ \E l \in ListIds : l # it.list /\ len(Mem, l) >= 1

\* the tail refers to the node length-1 links after the head, which has no
\* successor
TailOk(m, l) ==
    LET ps == FwdNodes(m, l)
        n == m.list[l].length
    IN  n > 0 => /\ n <= Len(ps)
                 /\ m.list[l].list_head # Null
                 /\ m.list[l].list_tail = ps[n]
                 /\ m.node[ps[n]].live
                 /\ m.node[ps[n]].next = Null

\* C4: after every public operation that leaves the list non-empty, the tail
\* reference refers to the node reached by following next length-1 times
\* from the head, and that node's next is absent.
C4_TailIsLast == ~ub /\ \A l \in ListIds : TailOk(Mem, l)

\* insert_next at an exhausted forward cursor has made a new tail
C4_Witness ==
    /\ it.kind = "mut" /\ it.head = Null
    /\ len(Mem, it.list) >= 2
    /\ list[it.list].list_tail \in it.ins

\* C5: in every reachable state length = 0, head absent and tail absent
\* agree, so is_empty() equals len() = 0.
C5_EmptinessAgrees ==
    \A l \in ListIds :
        /\ (len(Mem, l) = 0) = (list[l].list_head = Null)
        /\ (len(Mem, l) = 0) = (list[l].list_tail = Null)
        /\ is_empty(Mem, l) = (len(Mem, l) = 0)

\* a list of one node, which a pop from either end leaves with no head, no
\* tail and length 0
C5_Witness ==
    /\ Idle
    /\ \E l \in ListIds :
          /\ len(Mem, l) = 1
          /\ pop_front(Mem, l).r # None /\ pop_front(Mem, l).m.list[l] = DList_new
          /\ pop(Mem, l).r # None /\ pop(Mem, l).m.list[l] = DList_new

IndexOf(s, x) == CHOOSE k \in 1..Len(s) : s[k] = x
InsertAt(s, k, x) == SubSeq(s, 1, k - 1) \o <<x>> \o SubSeq(s, k, Len(s))
LiveIds(m) == {p \in DOMAIN m.node : m.node[p].live}

C7_Append ==
    Idle =>
        \A self \in ListIds : \A other \in ListIds \ {self} :
            LET m2 == append(Mem, self, other)
            IN  /\ ~m2.ub
                /\ FwdNodes(m2, self) = FwdNodes(Mem, self) \o FwdNodes(Mem, other)
                /\ FwdSeq(m2, self) = FwdSeq(Mem, self) \o FwdSeq(Mem, other)
                /\ len(m2, self) = len(Mem, self) + len(Mem, other)

\* two non-empty lists, on which append gives the three elements in order
C7_Witness ==
    /\ Idle
    /\ \E self \in ListIds : \E other \in ListIds \ {self} :
          /\ len(Mem, self) = 1 /\ len(Mem, other) = 2
          /\ FwdSeq(append(Mem, self, other), self)
                = FwdSeq(Mem, self) \o FwdSeq(Mem, other)
          /\ len(append(Mem, self, other), self) = 3

\* C8: after a.append(b) returns, b is an empty list (head absent, tail
\* absent, length 0) whether or not a or b was empty, and every node b held
\* is alive and owned by a: no node was released through b.
C8_AppendEmptiesOther ==
    Idle =>
        \A self \in ListIds : \A other \in ListIds \ {self} :
            LET m2 == append(Mem, self, other)
            IN  /\ ~m2.ub
                /\ m2.list[other] = DList_new
                /\ LiveIds(m2) = LiveIds(Mem)
                /\ Range(FwdNodes(Mem, other)) \subseteq Range(FwdNodes(m2, self))
                /\ ChainLive(m2, self)

\* both lists non-empty: append leaves `other` empty and all three nodes
\* alive in self
C8_Witness ==
    /\ Idle
    /\ \E self \in ListIds : \E other \in ListIds \ {self} :
          /\ len(Mem, self) = 2 /\ len(Mem, other) = 1
          /\ append(Mem, self, other).list[other] = DList_new
          /\ Cardinality(LiveIds(append(Mem, self, other))) = 3

\* C9: a.prepend(b) makes a's forward sequence b's old sequence followed by
\* a's old sequence, with length the sum of both lengths, whether a or b is
\* empty or not.
C9_Prepend ==
    Idle =>
        \A self \in ListIds : \A other \in ListIds \ {self} :
            LET m2 == prepend(Mem, self, other)
            IN  /\ ~m2.ub
                /\ FwdNodes(m2, self) = FwdNodes(Mem, other) \o FwdNodes(Mem, self)
                /\ FwdSeq(m2, self) = FwdSeq(Mem, other) \o FwdSeq(Mem, self)
                /\ len(m2, self) = len(Mem, self) + len(Mem, other)

\* two non-empty lists with different contents, on which prepend puts the
\* other list's elements first
C9_Witness ==
    /\ Idle
    /\ \E self \in ListIds : \E other \in ListIds \ {self} :
          /\ len(Mem, self) = 2 /\ len(Mem, other) = 1
          /\ FwdSeq(Mem, self) # FwdSeq(Mem, other) \o FwdSeq(Mem, other)
          /\ FwdSeq(prepend(Mem, self, other), self)
                = FwdSeq(Mem, other) \o FwdSeq(Mem, self)
          /\ FwdSeq(prepend(Mem, self, other), self)
                # FwdSeq(Mem, self) \o FwdSeq(Mem, other)

(***************************************************************************)
(* merge on given inputs: two lists are built from sequences (list_from    *)
(* of the tests: collect, that is repeated push) and merged once.  The     *)
(* inputs are all pairs of sequences of at most MaxLen values, and the     *)
(* pair of tests::test_merge.                                              *)
(***************************************************************************)
\* longest input sequence of the specifications that draw their inputs
MaxLen == 2

SeqsUpTo(n) == UNION {[1..k -> Values] : k \in 0..n}

ExampleSelf == <<0, 1, 3, 5, 6, 7, 2>>
ExampleOther == <<-1, 0, 0, 7, 7, 9>>
ExampleMerged == <<-1, 0, 0, 0, 1, 3, 5, 6, 7, 2, 7, 7, 9>>

\* the memory holding list_from(xs) in "a" and list_from(ys) in "b"
ListsFrom(xs, ys) ==
    LET m0 == [node |-> EmptyHeap(Len(xs) + Len(ys)),
               list |-> [l \in ListIds |-> DList_new],
               ub |-> FALSE]
    IN  extend(extend(m0, "a", xs), "b", ys)

InitMerge ==
    \E in \in (SeqsUpTo(MaxLen) \X SeqsUpTo(MaxLen))
                 \cup {<<ExampleSelf, ExampleOther>>} :
      \E f \in Preds :
        LET m0 == ListsFrom(in[1], in[2])
        IN  /\ node = m0.node /\ list = m0.list /\ ub = m0.ub
            /\ it = NoIter
            /\ ret = None
            /\ ref = [q |-> <<>>, r |-> None]
            /\ call = [f |-> f, xs |-> in[1], ys |-> in[2],
                       a0 |-> FwdNodes(m0, "a"), b0 |-> FwdNodes(m0, "b"),
                       done |-> FALSE]

MergeCall ==
    /\ ~call.done
    /\ Store(merge(Mem, "a", "b", call.f))
    /\ call' = [call EXCEPT !.done = TRUE]
    /\ UNCHANGED <<it, ret, ref>>

SpecMerge == InitMerge /\ [][MergeCall]_vars

\* The two-way merge as documented, on positions: i is the front of self, j
\* the front of other.  While both are present, self's front is kept next
\* when f holds of the two fronts and other's front is placed before it
\* otherwise; the remainder of the list that is left follows.
RECURSIVE RefMerge(_, _, _, _, _)
RefMerge(xs, ys, f, i, j) ==
    IF j > Len(ys) THEN [k \in 1..(Len(xs) - i + 1) |-> <<"self", i + k - 1>>]
    ELSE IF i > Len(xs)
    THEN [k \in 1..(Len(ys) - j + 1) |-> <<"other", j + k - 1>>]
    ELSE IF Holds(f, xs[i], ys[j])
    THEN <<(<<"self", i>>)>> \o RefMerge(xs, ys, f, i + 1, j)
    ELSE <<(<<"other", j>>)>> \o RefMerge(xs, ys, f, i, j + 1)

Pick(t, as, bs) == IF t[1] = "self" THEN as[t[2]] ELSE bs[t[2]]
PickAll(ts, as, bs) == [k \in 1..Len(ts) |-> Pick(ts[k], as, bs)]

\* the subsequence of s of the elements in set S
RECURSIVE Restrict(_, _)
Restrict(s, S) ==
    IF s = <<>> THEN <<>>
    ELSE (IF Head(s) \in S THEN <<Head(s)>> ELSE <<>>) \o Restrict(Tail(s), S)

\* C10: self.merge(other, f) consumes other entirely: the result has length
\* len(self)+len(other), holds every node of both lists exactly once, keeps
\* the relative order of self's nodes and of other's nodes, and is the
\* step-by-step interleaving chosen by f (RefMerge); test_merge's lists give
\* [-1,0,0,0,1,3,5,6,7,2,7,7,9] under a <= b.
C10_Merge ==
    call.done =>
        LET ts == RefMerge(call.xs, call.ys, call.f, 1, 1)
            got == FwdNodes(Mem, "a")
        IN  /\ ~ub
            /\ len(Mem, "a") = Len(call.xs) + Len(call.ys)
            /\ Len(got) = Len(call.xs) + Len(call.ys)
            /\ list["b"] = DList_new
            /\ Restrict(got, Range(call.a0)) = call.a0
            /\ Restrict(got, Range(call.b0)) = call.b0
            /\ got = PickAll(ts, call.a0, call.b0)
            /\ FwdSeq(Mem, "a") = PickAll(ts, call.xs, call.ys)
            /\ PrevLinksOk(Mem, "a") /\ TailOk(Mem, "a")
            /\ (call.xs = ExampleSelf /\ call.ys = ExampleOther /\ call.f = "le")
                  => FwdSeq(Mem, "a") = ExampleMerged

\* test_merge has run: its two lists were merged under a <= b
C10_Witness ==
    /\ call.done
    /\ call.xs = ExampleSelf /\ call.ys = ExampleOther /\ call.f = "le"
    /\ FwdSeq(Mem, "a") = ExampleMerged
    /\ len(Mem, "a") = 13


Sorted(s) == \A k \in 1..(Len(s) - 1) : s[k] <= s[k + 1]

\* C11: if self and other are each sorted ascending, self.merge(other,
\* |a, b| a <= b) yields an ascending list in which, among equal elements,
\* those that came from self precede those that came from other.
C11_SortedMerge ==
    (call.done /\ call.f = "le" /\ Sorted(call.xs) /\ Sorted(call.ys)) =>
        LET got == FwdNodes(Mem, "a")
            vs == FwdSeq(Mem, "a")
        IN  /\ ~ub
            /\ Len(got) = Len(call.xs) + Len(call.ys)
            /\ Sorted(vs)
            /\ \A p \in 1..Len(got) : \A q \in (p + 1)..Len(got) :
                  vs[p] = vs[q] =>
                      ~(got[p] \in Range(call.b0) /\ got[q] \in Range(call.a0))

\* [0,1] merged with [0,1] under a <= b: each of self's elements comes
\* right before its equal from other
C11_Witness ==
    /\ call.done /\ call.f = "le"
    /\ call.xs = <<0, 1>> /\ call.ys = <<0, 1>>
    /\ FwdSeq(Mem, "a") = <<0, 0, 1, 1>>
    /\ FwdNodes(Mem, "a") = <<call.a0[1], call.b0[1], call.a0[2], call.b0[2]>>


\* C12: rotate_forward moves the last element to the front and
\* rotate_backward moves the first element to the back; each leaves the
\* length and the relative order of the other elements unchanged, and leaves
\* an empty or one-element list unchanged.
C12_Rotate ==
    Idle =>
        \A l \in ListIds :
            LET pre == FwdNodes(Mem, l)
                n == Len(pre)
                fw == rotate_forward(Mem, l)
                bw == rotate_backward(Mem, l)
            IN  /\ ~fw.ub /\ ~bw.ub
                /\ FwdNodes(fw, l) = IF n = 0 THEN <<>>
                                      ELSE <<pre[n]>> \o SubSeq(pre, 1, n - 1)
                /\ FwdNodes(bw, l) = IF n = 0 THEN <<>>
                                      ELSE Tail(pre) \o <<pre[1]>>
                /\ ValuesOf(fw, pre) = ValuesOf(Mem, pre)
                /\ ValuesOf(bw, pre) = ValuesOf(Mem, pre)
                /\ len(fw, l) = len(Mem, l) /\ len(bw, l) = len(Mem, l)
                /\ n <= 1 => fw = Mem /\ bw = Mem

\* a list of three nodes whose first and last values differ: either
\* rotation changes the forward sequence
C12_Witness ==
    /\ Idle
    /\ \E l \in ListIds :
          LET pre == FwdNodes(Mem, l)
          IN  /\ Len(pre) = 3
              /\ node[pre[1]].value # node[pre[3]].value
              /\ FwdNodes(rotate_forward(Mem, l), l) = <<pre[3], pre[1], pre[2]>>
              /\ FwdNodes(rotate_backward(Mem, l), l) = <<pre[2], pre[3], pre[1]>>
              /\ FwdSeq(rotate_forward(Mem, l), l) # FwdSeq(Mem, l)

\* push_back(1); push_back(2); push_back(3) on an empty list
RotateExample == ListsFrom(<<1, 2, 3>>, <<>>)

\* C13: rotate_forward and rotate_backward are mutual inverses: one followed
\* by the other restores the forward sequence, the length and every link;
\* on [1,2,3] rotate_forward gives [3,1,2] and rotate_backward then gives
\* [1,2,3] again.
C13_RotateInverse ==
    Idle =>
        /\ \A l \in ListIds :
              /\ rotate_backward(rotate_forward(Mem, l), l) = Mem
              /\ rotate_forward(rotate_backward(Mem, l), l) = Mem
        /\ FwdSeq(RotateExample, "a") = <<1, 2, 3>>
        /\ FwdSeq(rotate_forward(RotateExample, "a"), "a") = <<3, 1, 2>>
        /\ FwdSeq(rotate_backward(rotate_forward(RotateExample, "a"), "a"),
                  "a") = <<1, 2, 3>>

\* a list of three nodes that rotate_forward changes and rotate_backward
\* then restores
C13_Witness ==
    /\ Idle
    /\ \E l \in ListIds :
          /\ len(Mem, l) = 3
          /\ FwdNodes(rotate_forward(Mem, l), l) # FwdNodes(Mem, l)
          /\ rotate_backward(rotate_forward(Mem, l), l) = Mem
          /\ rotate_forward(rotate_backward(Mem, l), l) = Mem


\* on list l of memory m, the next_back-only traversal (read-only and
\* mutable) and the walk over prev from the tail give the reverse of the
\* next-only traversal, which visits len(l) live nodes
BackwardIsReverse(m, l) ==
    LET fwd == Items_collect(m, iter(m, l))
    IN  /\ ~m.ub
        /\ Len(fwd) = len(m, l)
        /\ fwd = FwdNodes(m, l)
        /\ \A p \in Range(fwd) : m.node[p].live
        /\ Items_rev_collect(m, iter(m, l)) = Reverse(fwd)
        /\ MutItems_collect(m, mut_iter(m, l)) = fwd
        /\ MutItems_rev_collect(m, mut_iter(m, l)) = Reverse(fwd)
        /\ BackNodes(m, l) = Reverse(fwd)

\* C14: after any sequence of operations, and so after append, prepend,
\* rotate_forward and rotate_backward applied to any reachable lists, the
\* next_back-only traversal from the tail yields exactly the reverse of the
\* next-only traversal from the head.  (A list is traversed when no mutable
\* iterator borrows it; every memory reached under an iterator is also the
\* memory of the state after the iterator is dropped.)
C14_BackwardIsReverse ==
    /\ ~ub
    /\ Idle =>
          \A l \in ListIds : \A o \in ListIds \ {l} :
              /\ BackwardIsReverse(Mem, l)
              /\ BackwardIsReverse(rotate_forward(Mem, l), l)
              /\ BackwardIsReverse(rotate_backward(Mem, l), l)
              /\ BackwardIsReverse(append(Mem, l, o), l)
              /\ BackwardIsReverse(prepend(Mem, l, o), l)

\* a list of two nodes and one of one node: after append and rotate_forward
\* the forward traversal is <<third, first, second>> and the backward
\* traversal <<second, first, third>>
C14_Witness ==
    /\ Idle
    /\ \E l \in ListIds : \E o \in ListIds \ {l} :
          LET pre == FwdNodes(Mem, l) \o FwdNodes(Mem, o)
              m2 == rotate_forward(append(Mem, l, o), l)
          IN  /\ len(Mem, l) = 2 /\ len(Mem, o) = 1
              /\ Items_collect(m2, iter(m2, l)) = <<pre[3], pre[1], pre[2]>>
              /\ Items_rev_collect(m2, iter(m2, l)) = <<pre[2], pre[1], pre[3]>>


\* the index of the first element x of vs for which f(x, v) holds, or
\* Len(vs) + 1 when there is none
FirstMatch(vs, f, v) ==
    IF \E k \in 1..Len(vs) : Holds(f, vs[k], v)
    THEN CHOOSE k \in 1..Len(vs) :
            /\ Holds(f, vs[k], v)
            /\ \A j \in 1..(k - 1) : ~Holds(f, vs[j], v)
    ELSE Len(vs) + 1

\* C15: insert_when(v, p) inserts v immediately before the first element x
\* (in forward order) for which p(x, v) holds, or at the end if no element
\* satisfies p (the empty list included); the length grows by one and every
\* pre-existing element keeps its place relative to the others.
C15_InsertWhen ==
    (Idle /\ CanAlloc) =>
        \A l \in ListIds : \A v \in Values : \A f \in Preds :
            LET pre == FwdNodes(Mem, l)
                new == box_new(Mem, v).r
                m2 == insert_when(Mem, l, v, f)
                k == FirstMatch(FwdSeq(Mem, l), f, v)
            IN  /\ ~m2.ub
                /\ new \notin Range(pre)
                /\ FwdNodes(m2, l) = InsertAt(pre, k, new)
                /\ m2.node[new].value = v
                /\ ValuesOf(m2, pre) = ValuesOf(Mem, pre)
                /\ len(m2, l) = len(Mem, l) + 1
                /\ \A o \in ListIds \ {l} : m2.list[o] = list[o]

\* the list [0,1]: insert_when(1, >=) puts the new node between the two,
\* insert_when(0, never) after both, insert_when(0, always) before both
C15_Witness ==
    /\ Idle /\ CanAlloc
    /\ \E l \in ListIds :
          LET pre == FwdNodes(Mem, l)
              new == box_new(Mem, 1).r
          IN  /\ FwdSeq(Mem, l) = <<0, 1>>
              /\ FwdNodes(insert_when(Mem, l, 1, "ge"), l)
                    = <<pre[1], new, pre[2]>>
              /\ FwdSeq(insert_when(Mem, l, 1, "ge"), l) = <<0, 1, 1>>
              /\ FwdNodes(insert_when(Mem, l, 0, "never"), l)
                    = <<pre[1], pre[2], new>>
              /\ FwdNodes(insert_when(Mem, l, 0, "always"), l)
                    = <<new, pre[1], pre[2]>>


(***************************************************************************)
(* insert_ordered on given inputs: a list is built from a sequence by      *)
(* repeated push, then a sequence of values is inserted one call at a      *)
(* time.  The inputs are all pairs of sequences of at most MaxLen values,  *)
(* all runs of at most MaxLen + 2 calls on an empty list, and the list and *)
(* value of tests::test_insert_ordered.  Here call.xs is the initial list, *)
(* call.ys the values to insert, call.n the number of calls made and       *)
(* call.a0 the forward nodes before the last call.                         *)
(***************************************************************************)
OrderedInputs ==
    (SeqsUpTo(MaxLen) \X SeqsUpTo(MaxLen))
      \cup ({<<>>} \X SeqsUpTo(MaxLen + 2))
      \cup {<<(<<2, 4>>), (<<3>>)>>}

InitOrdered ==
    \E in \in OrderedInputs :
        LET m0 == extend([node |-> EmptyHeap(Len(in[1]) + Len(in[2])),
                          list |-> [l \in ListIds |-> DList_new],
                          ub |-> FALSE], "a", in[1])
        IN  /\ node = m0.node /\ list = m0.list /\ ub = m0.ub
            /\ it = NoIter
            /\ ret = None
            /\ ref = [q |-> <<>>, r |-> None]
            /\ call = [f |-> "ge", xs |-> in[1], ys |-> in[2],
                       a0 |-> FwdNodes(m0, "a"), b0 |-> <<>>,
                       n |-> 0, done |-> in[2] = <<>>]

InsertOrderedCall ==
    /\ ~call.done /\ ~ub
    /\ Store(insert_ordered(Mem, "a", call.ys[call.n + 1]))
    /\ call' = [call EXCEPT !.a0 = FwdNodes(Mem, "a"),
                            !.n = @ + 1,
                            !.done = (call.n + 1 = Len(call.ys))]
    /\ UNCHANGED <<it, ret, ref>>

SpecOrdered == InitOrdered /\ [][InsertOrderedCall]_vars

\* C16: insert_ordered preserves ascending order: a list that was sorted
\* ascending before insert_ordered(v) is sorted ascending afterwards, with
\* the old nodes in their old order and one new node holding v; so repeated
\* calls in any value order starting from an empty (or sorted) list always
\* leave a forward-ascending sequence; [2,4] with 3 inserted is [2,3,4].
C16_InsertOrdered ==
    LET got == FwdNodes(Mem, "a")
        vs == FwdSeq(Mem, "a")
    IN  /\ ~ub
        /\ len(Mem, "a") = Len(call.xs) + call.n
        /\ Len(got) = Len(call.xs) + call.n
        /\ Sorted(call.xs) => Sorted(vs)
        /\ call.n > 0 =>
              /\ Restrict(got, Range(call.a0)) = call.a0
              /\ Len(got) = Len(call.a0) + 1
              /\ \A p \in Range(got) \ Range(call.a0) :
                    node[p].value = call.ys[call.n]
        /\ (call.done /\ call.xs = <<2, 4>> /\ call.ys = <<3>>)
              => vs = <<2, 3, 4>>

\* 1, 0, 1, 0 inserted into an empty list give [0,0,1,1]
C16_Witness ==
    /\ call.done /\ call.n = 4
    /\ call.xs = <<>> /\ call.ys = <<1, 0, 1, 0>>
    /\ FwdSeq(Mem, "a") = <<0, 0, 1, 1>>


(***************************************************************************)
(* Iteration on given inputs: a list is built from a sequence by repeated  *)
(* push and one iterator over it is created: a read-only one (iter), a     *)
(* mutable one (mut_iter) or a consuming one (move_iter); then the         *)
(* iterator is stepped in any order.  The heap has one cell more than the  *)
(* list, for insert_next.  Besides the iterator, `it` records              *)
(*   front, back : the <<node, value>> pairs yielded by next and by        *)
(*                 next_back so far,                                       *)
(*   plain       : only next and next_back have been called so far (the    *)
(*                 yields are recorded while this holds),                  *)
(* call.xs and call.a0 are the values and the nodes of the list when the   *)
(* iterator was created, and ret is what the last step returned.           *)
(***************************************************************************)
IterKinds == {"imm", "mut", "move"}

InitIter ==
    \E xs \in SeqsUpTo(MaxLen + 1) : \E kind \in IterKinds :
        LET m0 == extend([node |-> EmptyHeap(Len(xs) + 1),
                          list |-> [l \in ListIds |-> DList_new],
                          ub |-> FALSE], "a", xs)
            c == IF kind = "move"
                 THEN [head |-> Null, tail |-> Null, nelem |-> 0]
                 ELSE iter(m0, "a")
        IN  /\ node = m0.node /\ list = m0.list /\ ub = m0.ub
            /\ it = [kind |-> kind, list |-> "a", head |-> c.head,
                     tail |-> c.tail, nelem |-> c.nelem, ins |-> {},
                     front |-> <<>>, back |-> <<>>, plain |-> TRUE]
            /\ ret = None
            /\ ref = [q |-> <<>>, r |-> None]
            /\ call = [f |-> "le", xs |-> xs, ys |-> <<>>,
                       a0 |-> FwdNodes(m0, "a"), b0 |-> <<>>, done |-> FALSE]

ItemsOf(i) == [head |-> i.head, tail |-> i.tail, nelem |-> i.nelem]

\* the value behind the reference a step returned
Deref(m, p) == IF p = Null THEN None ELSE Some(m.node[p].value)

\* the yields recorded so far, with node p (if any) added
Yielded(ys, m, p) ==
    IF p = Null \/ ~it.plain THEN ys ELSE Append(ys, <<p, m.node[p].value>>)

ImmNext ==
    /\ ~ub /\ it.kind = "imm"
    /\ LET s == Items_next(Mem, ItemsOf(it))
       IN  /\ Store(s.m)
           /\ it' = [WithCursor(it, s.i) EXCEPT
                         !.front = Yielded(@, Mem, s.r)]
           /\ ret' = Deref(Mem, s.r)
    /\ UNCHANGED <<ref, call>>

ImmNextBack ==
    /\ ~ub /\ it.kind = "imm"
    /\ LET s == Items_next_back(Mem, ItemsOf(it))
       IN  /\ Store(s.m)
           /\ it' = [WithCursor(it, s.i) EXCEPT
                         !.back = Yielded(@, Mem, s.r)]
           /\ ret' = Deref(Mem, s.r)
    /\ UNCHANGED <<ref, call>>

ImmPrev ==
    /\ ~ub /\ it.kind = "imm"
    /\ LET s == Items_prev(Mem, ItemsOf(it))
       IN  /\ Store(s.m)
           /\ it' = [WithCursor(it, s.i) EXCEPT
                         !.front = <<>>, !.back = <<>>, !.plain = FALSE]
           /\ ret' = Deref(Mem, s.r)
    /\ UNCHANGED <<ref, call>>

ImmPrevBack ==
    /\ ~ub /\ it.kind = "imm"
    /\ LET s == Items_prev_back(Mem, ItemsOf(it))
       IN  /\ Store(s.m)
           /\ it' = [WithCursor(it, s.i) EXCEPT
                         !.front = <<>>, !.back = <<>>, !.plain = FALSE]
           /\ ret' = Deref(Mem, s.r)
    /\ UNCHANGED <<ref, call>>

MutNext ==
    /\ ~ub /\ it.kind = "mut"
    /\ LET s == MutItems_next(Mem, Cursor(it))
       IN  /\ Store(s.m)
           /\ it' = [WithCursor(it, s.i) EXCEPT
                         !.front = Yielded(@, Mem, s.r)]
           /\ ret' = Deref(Mem, s.r)
    /\ UNCHANGED <<ref, call>>

MutNextBack ==
    /\ ~ub /\ it.kind = "mut"
    /\ LET s == MutItems_next_back(Mem, Cursor(it))
       IN  /\ Store(s.m)
           /\ it' = [WithCursor(it, s.i) EXCEPT
                         !.back = Yielded(@, Mem, s.r)]
           /\ ret' = Deref(Mem, s.r)
    /\ UNCHANGED <<ref, call>>

MutInsertNext ==
    \E v \in Values :
        /\ ~ub /\ it.kind = "mut" /\ CanAlloc
        /\ LET s == insert_next(Mem, Cursor(it), v)
           IN  /\ Store(s.m)
               /\ it' = [WithCursor(it, s.i) EXCEPT
                             !.ins = @ \cup {box_new(Mem, v).r},
                             !.front = <<>>, !.back = <<>>,
                             !.plain = FALSE]
        /\ ret' = None
        /\ UNCHANGED <<ref, call>>

MoveNext ==
    /\ ~ub /\ it.kind = "move"
    /\ LET s == MoveItems_next(Mem, move_iter(Mem, it.list))
       IN  /\ Store(s.m)
           /\ it' = [it EXCEPT !.front =
                         Yielded(@, Mem, pop_front_node(Mem, it.list).r)]
           /\ ret' = s.r
    /\ UNCHANGED <<ref, call>>

MoveNextBack ==
    /\ ~ub /\ it.kind = "move"
    /\ LET s == MoveItems_next_back(Mem, move_iter(Mem, it.list))
       IN  /\ Store(s.m)
           /\ it' = [it EXCEPT !.back =
                         Yielded(@, Mem, pop_back_node(Mem, it.list).r)]
           /\ ret' = s.r
    /\ UNCHANGED <<ref, call>>

NextIter ==
    \/ ImmNext \/ ImmNextBack \/ ImmPrev \/ ImmPrevBack
    \/ MutNext \/ MutNextBack \/ MutInsertNext
    \/ MoveNext \/ MoveNextBack

SpecIter == InitIter /\ [][NextIter]_vars


\* the <<node, value>> pairs of the list when the iterator was created
InitPairs == [k \in 1..Len(call.a0) |-> <<call.a0[k], call.xs[k]>>]

\* next() and next_back() of the iterator of the current state, whichever
\* of Items and MutItems it is
StepNext ==
    IF it.kind = "imm" THEN Items_next(Mem, ItemsOf(it))
    ELSE MutItems_next(Mem, Cursor(it))
StepNextBack ==
    IF it.kind = "imm" THEN Items_next_back(Mem, ItemsOf(it))
    ELSE MutItems_next_back(Mem, Cursor(it))

\* what next and next_back have yielded so far is a prefix of the list in
\* forward order and a suffix in reverse order, n - nelem nodes in all,
\* each once; the next steps yield the nodes that follow, and none once n
\* nodes have been yielded
YieldsOk ==
    LET n == Len(call.a0)
        f == it.front
        b == it.back
    IN  /\ ~ub
        /\ Len(f) + Len(b) + it.nelem = n
        /\ f = SubSeq(InitPairs, 1, Len(f))
        /\ b = Reverse(SubSeq(InitPairs, n - Len(b) + 1, n))
        /\ Cardinality(Range(f) \cup Range(b)) = Len(f) + Len(b)
        /\ FwdNodes(Mem, it.list) = call.a0
        /\ it.nelem > 0 =>
              /\ StepNext.r = call.a0[Len(f) + 1]
              /\ StepNextBack.r = call.a0[n - Len(b)]
        /\ it.nelem = 0 =>
              /\ StepNext.r = Null /\ ItemsOf(StepNext.i) = ItemsOf(it)
              /\ StepNextBack.r = Null
              /\ ItemsOf(StepNextBack.i) = ItemsOf(it)

\* C17 as stated: for read-only and mutable iterators over a list of n
\* elements, any interleaving of next() and next_back() yields exactly n
\* elements, each node once, a prefix forward and a suffix in reverse, and
\* once n elements have been yielded both return no value, even though
\* neither cursor is null.
C17_AsStated ==
    (it.kind \in {"imm", "mut"} /\ it.plain) =>
        /\ YieldsOk
        /\ (Len(call.a0) > 0 /\ it.nelem = 0) =>
              (it.head # Null /\ it.tail # Null)

\* C17 (amended): as stated, except that at exhaustion a cursor may be
\* null: the forward cursor is null exactly when next() has yielded all n
\* elements and the backward cursor exactly when next_back() has; otherwise
\* each refers to the node its side would yield next.
C17_DoubleEnded ==
    (it.kind \in {"imm", "mut"} /\ it.plain) =>
        LET n == Len(call.a0)
        IN  /\ YieldsOk
            /\ it.head = IF Len(it.front) = n THEN Null
                          ELSE call.a0[Len(it.front) + 1]
            /\ it.tail = IF Len(it.back) = n THEN Null
                          ELSE call.a0[n - Len(it.back)]

\* tests::test_iterator_double_end: three elements, one taken by next and
\* two by next_back; both cursors still refer to nodes and both directions
\* return None
C17_Witness ==
    /\ it.kind = "imm" /\ it.plain
    /\ Len(call.a0) = 3 /\ it.nelem = 0
    /\ Len(it.front) = 1 /\ Len(it.back) = 2
    /\ it.head # Null /\ it.tail # Null
    /\ StepNext.r = Null /\ StepNextBack.r = Null


\* the number of nodes of list l from the forward cursor of iterator i to
\* its backward cursor, both included (a null forward cursor stands past
\* the last node, a null backward cursor before the first)
Span(m, l, i) ==
    LET ps == FwdNodes(m, l)
        h == IF i.head = Null THEN Len(ps) + 1 ELSE IndexOf(ps, i.head)
        t == IF i.tail = Null THEN 0 ELSE IndexOf(ps, i.tail)
    IN  Cardinality({k \in 1..Len(ps) : h <= k /\ k <= t})

\* a step that returned a node changed the remaining-count by d, one that
\* returned None left the iterator as it was
StepCounts(s, d) ==
    IF s.r # Null THEN s.i.nelem = it.nelem + d
    ELSE ItemsOf(s.i) = ItemsOf(it)

\* C18: for read-only and mutable iterators, under any interleaving of next
\* and next_back (and prev and prev_back on read-only iterators, insert_next
\* on mutable ones), size_hint reports exactly the remaining-count, which
\* is the number of nodes from the forward cursor to the backward cursor
\* inclusive, changes by exactly one per successful step, and never exceeds
\* the length the list had when the iterator was created.
C18_SizeHint ==
    it.kind \in {"imm", "mut"} =>
        LET ps == FwdNodes(Mem, it.list)
            i == ItemsOf(it)
        IN  /\ ~ub
            /\ it.head \in Range(ps) \cup {Null}
            /\ it.tail \in Range(ps) \cup {Null}
            /\ size_hint(i) = <<it.nelem, Some(it.nelem)>>
            /\ size_hint(i)[1] = Span(Mem, it.list, i)
            /\ it.nelem <= Len(call.a0)
            /\ StepCounts(StepNext, -1)
            /\ StepCounts(StepNextBack, -1)
            /\ it.kind = "imm" =>
                  /\ StepCounts(Items_prev(Mem, i), 1)
                  /\ StepCounts(Items_prev_back(Mem, i), 1)
            /\ (it.kind = "mut" /\ CanAlloc) =>
                  \A v \in Values :
                      LET s == insert_next(Mem, Cursor(it), v)
                      IN  /\ ItemsOf(s.i) = i
                          /\ Span(s.m, it.list, s.i) = it.nelem

\* a read-only iterator over three elements that has been stepped back at
\* least once and now has one element left between its cursors: prev and
\* prev_back each bring the count to two, next to zero
C18_Witness ==
    /\ it.kind = "imm" /\ ~it.plain
    /\ Len(call.a0) = 3
    /\ it.head = call.a0[2] /\ it.tail = call.a0[2] /\ it.nelem = 1
    /\ size_hint(ItemsOf(it)) = <<1, Some(1)>>
    /\ Items_prev(Mem, ItemsOf(it)).i.nelem = 2
    /\ Items_prev_back(Mem, ItemsOf(it)).i.nelem = 2
    /\ Items_next(Mem, ItemsOf(it)).i.nelem = 0


\* C19: pop_front, pop_back, front and back on an empty list, and peek_next
\* and next on an exhausted or empty iterator, return the no-value result
\* and leave the list (length, head, tail, links) unchanged, so that a later
\* push works as on a new list.
C19_EmptyOps ==
    /\ ~ub
    /\ \A l \in ListIds :
          is_empty(Mem, l) =>
              /\ pop_front(Mem, l) = [m |-> Mem, r |-> None]
              /\ pop(Mem, l) = [m |-> Mem, r |-> None]
              /\ front(Mem, l) = None
              /\ back(Mem, l) = None
              /\ list[l] = DList_new
              /\ CanAlloc =>
                    \A v \in Values :
                        LET m1 == push(pop_front(Mem, l).m, l, v)
                            m2 == push_front(pop(Mem, l).m, l, v)
                        IN  /\ ~m1.ub /\ ~m2.ub
                            /\ FwdSeq(m1, l) = <<v>> /\ len(m1, l) = 1
                            /\ FwdSeq(m2, l) = <<v>> /\ len(m2, l) = 1
                            /\ front(m1, l) = Some(v) /\ back(m1, l) = Some(v)
    /\ Idle =>
        \A l \in ListIds :
          LET i == Items_drain(Mem, iter(Mem, l))
          IN  /\ i.nelem = 0
              /\ Items_next(Mem, i) = [m |-> Mem, i |-> i, r |-> Null]
              /\ Items_next_back(Mem, i) = [m |-> Mem, i |-> i, r |-> Null]
    /\ (it.kind = "mut" /\ (it.nelem = 0 \/ is_empty(Mem, it.list))) =>
          /\ peek_next(Mem, Cursor(it)) = [m |-> Mem, r |-> Null]
          /\ MutItems_next(Mem, Cursor(it))
                = [m |-> Mem, i |-> Cursor(it), r |-> Null]

\* a mutable iterator that has yielded both elements of its list, beside a
\* list that is empty: peek_next, next and the pops return no value
C19_Witness ==
    /\ it.kind = "mut" /\ it.nelem = 0 /\ it.ins = {}
    /\ len(Mem, it.list) = 2
    /\ peek_next(Mem, Cursor(it)).r = Null
    /\ MutItems_next(Mem, Cursor(it)).r = Null
    /\ \E o \in ListIds \ {it.list} :
          /\ is_empty(Mem, o)
          /\ pop_front(Mem, o).r = None /\ pop(Mem, o).r = None
          /\ front(Mem, o) = None /\ back(Mem, o) = None


\* C20: a consuming iterator yields the list's elements in forward order
\* through next() (pop from the front) and in reverse order through
\* next_back() (pop from the back), under any interleaving yields every
\* element exactly once, reports the current remaining length as size_hint,
\* and leaves its list empty when exhausted.
C20_MoveItems ==
    it.kind = "move" =>
        LET n == Len(call.a0)
            f == it.front
            b == it.back
            mi == move_iter(Mem, it.list)
            left == n - Len(f) - Len(b)
        IN  /\ ~ub
            /\ left >= 0
            /\ f = SubSeq(InitPairs, 1, Len(f))
            /\ b = Reverse(SubSeq(InitPairs, n - Len(b) + 1, n))
            /\ FwdNodes(Mem, it.list) = SubSeq(call.a0, Len(f) + 1, n - Len(b))
            /\ FwdSeq(Mem, it.list) = SubSeq(call.xs, Len(f) + 1, n - Len(b))
            /\ LiveIds(Mem) = Range(FwdNodes(Mem, it.list))
            /\ MoveItems_size_hint(Mem, mi) = <<left, Some(left)>>
            /\ left > 0 =>
                  /\ MoveItems_next(Mem, mi).r = Some(call.xs[Len(f) + 1])
                  /\ MoveItems_next_back(Mem, mi).r = Some(call.xs[n - Len(b)])
            /\ left = 0 =>
                  /\ list[it.list] = DList_new
                  /\ MoveItems_next(Mem, mi) = [m |-> Mem, r |-> None]
                  /\ MoveItems_next_back(Mem, mi) = [m |-> Mem, r |-> None]

\* three elements consumed, one by next and two by next_back: the list is
\* empty and every node released
C20_Witness ==
    /\ it.kind = "move"
    /\ Len(call.a0) = 3
    /\ Len(it.front) = 1 /\ Len(it.back) = 2
    /\ ret = Some(call.xs[2])
    /\ list[it.list] = DList_new
    /\ LiveIds(Mem) = {}

(***************************************************************************)
(* Comparison on given inputs: list "a" is list_from(xs) for a sequence xs *)
(* of at most MaxLen elements (numbers and NaN), list "b" is built one     *)
(* element at a time by push_front and push in any order, and it can be    *)
(* drained by move_iter and rebuilt by from_iter.  call.xs is xs, call.ys  *)
(* the elements of "b" when it was last drained, call.done that it was     *)
(* rebuilt and not pushed to since.                                        *)
(***************************************************************************)
Floats == Values \cup {NaN}

FloatSeqs(n) == UNION {[1..k -> Floats] : k \in 0..n}

InitCompare ==
    \E xs \in FloatSeqs(MaxLen) :
        LET m0 == extend([node |-> EmptyHeap(Len(xs) + MaxLen),
                          list |-> [l \in ListIds |-> DList_new],
                          ub |-> FALSE], "a", xs)
        IN  /\ node = m0.node /\ list = m0.list /\ ub = m0.ub
            /\ it = NoIter
            /\ ret = None
            /\ ref = [q |-> <<>>, r |-> None]
            /\ call = [f |-> "le", xs |-> xs, ys |-> <<>>,
                       a0 |-> FwdNodes(m0, "a"), b0 |-> <<>>, done |-> FALSE]

BuildPushFront ==
    \E v \in Floats :
        /\ ~ub /\ len(Mem, "b") < MaxLen
        /\ Store(push_front(Mem, "b", v))
        /\ call' = [call EXCEPT !.done = FALSE]
        /\ UNCHANGED <<it, ret, ref>>

BuildPush ==
    \E v \in Floats :
        /\ ~ub /\ len(Mem, "b") < MaxLen
        /\ Store(push(Mem, "b", v))
        /\ call' = [call EXCEPT !.done = FALSE]
        /\ UNCHANGED <<it, ret, ref>>

RoundTripCall ==
    /\ ~ub
    /\ Store(round_trip(Mem, "b"))
    /\ call' = [call EXCEPT !.ys = FwdSeq(Mem, "b"),
                            !.b0 = FwdNodes(Mem, "b"), !.done = TRUE]
    /\ UNCHANGED <<it, ret, ref>>

NextCompare == BuildPushFront \/ BuildPush \/ RoundTripCall

SpecCompare == InitCompare /\ [][NextCompare]_vars

\* what tests::check_links checks: both traversals agree with the length
LinksValid(m, l) ==
    /\ PrevLinksOk(m, l)
    /\ TailOk(m, l)
    /\ len(m, l) = Len(FwdNodes(m, l))
    /\ BackNodes(m, l) = Reverse(FwdNodes(m, l))
    /\ len(m, l) = 0 => m.list[l].list_head = Null /\ m.list[l].list_tail = Null

\* C21 as stated: whenever "b" has been drained and rebuilt and "a" holds the
\* elements the original "b" held, in the same order, the rebuilt list is
\* equal to it under list equality.
C21_AsStated ==
    (call.done /\ FwdSeq(Mem, "a") = call.ys) =>
        /\ eq(Mem, "b", "a")
        /\ LinksValid(Mem, "b")

\* C21: draining a list with the consuming iterator and rebuilding it by
\* from_iter gives a list with the same elements in the same forward order
\* and valid links, every old node released and nothing else touched; it is
\* equal under list equality to a list holding the elements of the original
\* exactly when none of them is NaN.
C21_RoundTrip ==
    call.done =>
        /\ ~ub
        /\ FwdSeq(Mem, "b") = call.ys
        /\ LinksValid(Mem, "b")
        /\ FwdNodes(Mem, "a") = call.a0 /\ FwdSeq(Mem, "a") = call.xs
        /\ LinksValid(Mem, "a")
        /\ Cardinality(LiveIds(Mem)) = len(Mem, "a") + len(Mem, "b")
        /\ FwdSeq(Mem, "a") = call.ys =>
              /\ eq(Mem, "b", "a") <=> NaN \notin Range(call.ys)
              /\ eq(Mem, "a", "b") <=> NaN \notin Range(call.ys)
              /\ eq(Mem, "b", "b") <=> NaN \notin Range(call.ys)

\* a two-element list built by push_front has been rebuilt on other nodes in
\* another layout and is equal to list "a"
C21_Witness ==
    /\ call.done /\ Len(call.ys) = 2
    /\ call.b0[1] > call.b0[2]
    /\ FwdNodes(Mem, "b") # call.b0
    /\ FwdSeq(Mem, "a") = call.ys
    /\ eq(Mem, "b", "a")

(***************************************************************************)
(* tests::test_insert_prev, one statement at a time, on the list of the    *)
(* test and on every list of at most MaxLen + 1 values.  call.pc is the    *)
(* statement to run next, call.n the number of elements next() has         *)
(* yielded, call.r the node whose value the last next() or peek_next()     *)
(* returned, call.ins the nodes allocated by insert_next in call order,    *)
(* call.ys what the final move_iter().collect() returned.                  *)
(***************************************************************************)
InsertPrevExample == <<0, 2, 4, 6, 8>>
InsertPrevExpected == <<-2, 0, 1, 2, 3, 4, 5, 6, 7, 8, 9, 0, 1>>

InitInsertPrev ==
    \E xs \in SeqsUpTo(MaxLen + 1) \cup {InsertPrevExample} :
        LET m0 == extend([node |-> EmptyHeap(2 * Len(xs) + 3),
                          list |-> [l \in ListIds |-> DList_new],
                          ub |-> FALSE], "a", xs)
        IN  /\ node = m0.node /\ list = m0.list /\ ub = m0.ub
            /\ it = [kind |-> "mut", ins |-> {}] @@ mut_iter(m0, "a")
            /\ ret = None
            /\ ref = [q |-> <<>>, r |-> None]
            /\ call = [f |-> "le", xs |-> xs, ys |-> <<>>,
                       a0 |-> FwdNodes(m0, "a"), b0 |-> <<>>, done |-> FALSE,
                       pc |-> "start", n |-> 0, r |-> Null, ins |-> <<>>]

\* it.insert_next(v), then control goes to pc
TestInsert(v, pc) ==
    LET s == insert_next(Mem, Cursor(it), v)
    IN  /\ Store(s.m)
        /\ it' = [WithCursor(it, s.i) EXCEPT
                      !.ins = @ \cup {box_new(Mem, v).r}]
        /\ call' = [call EXCEPT !.pc = pc,
                                !.ins = Append(@, box_new(Mem, v).r)]
        /\ UNCHANGED <<ret, ref>>

\* it.insert_next(-2)
TestInsertFirst == ~ub /\ call.pc = "start" /\ TestInsert(-2, "loop")

\* match it.next()
TestNext ==
    /\ ~ub /\ call.pc = "loop"
    /\ LET s == MutItems_next(Mem, Cursor(it))
       IN  /\ Store(s.m)
           /\ it' = WithCursor(it, s.i)
           /\ ret' = Deref(Mem, s.r)
           /\ call' = [call EXCEPT
                          !.pc = IF s.r = Null THEN "after" ELSE "yield",
                          !.n = IF s.r = Null THEN @ ELSE @ + 1,
                          !.r = s.r]
    /\ UNCHANGED ref

\* it.insert_next(*elt + 1)
TestInsertAfterYield ==
    ~ub /\ call.pc = "yield" /\ TestInsert(ret[1] + 1, "peek")

\* match it.peek_next()
TestPeekNext ==
    /\ ~ub /\ call.pc = "peek"
    /\ LET s == peek_next(Mem, Cursor(it))
       IN  /\ Store(s.m)
           /\ ret' = Deref(Mem, s.r)
           /\ call' = [call EXCEPT !.pc = "loop", !.r = s.r]
    /\ UNCHANGED <<it, ref>>

\* it.insert_next(0)
TestInsertZero == ~ub /\ call.pc = "after" /\ TestInsert(0, "after1")

\* it.insert_next(1), and the iterator goes out of scope
TestInsertOne ==
    /\ ~ub /\ call.pc = "after1"
    /\ LET s == insert_next(Mem, Cursor(it), 1)
       IN  Store(s.m)
    /\ it' = NoIter
    /\ call' = [call EXCEPT !.pc = "done",
                            !.ins = Append(@, box_new(Mem, 1).r)]
    /\ UNCHANGED <<ret, ref>>

\* m.move_iter().collect::<Vec<int>>()
TestCollect ==
    /\ ~ub /\ call.pc = "done"
    /\ LET d == MoveItems_collect(Mem, move_iter(Mem, "a"))
       IN  /\ Store(drop_list(d.m, "a"))
           /\ call' = [call EXCEPT !.pc = "end", !.ys = d.r, !.done = TRUE]
    /\ UNCHANGED <<it, ret, ref>>

NextInsertPrev ==
    \/ TestInsertFirst \/ TestNext \/ TestInsertAfterYield \/ TestPeekNext
    \/ TestInsertZero \/ TestInsertOne \/ TestCollect

SpecInsertPrev == InitInsertPrev /\ [][NextInsertPrev]_vars

\* the first k elements of xs, each followed by the element of ys after it
RECURSIVE Paired(_, _, _)
Paired(xs, ys, k) ==
    IF k = 0 THEN <<>> ELSE Paired(xs, ys, k - 1) \o <<xs[k], ys[k]>>

\* the elements of s from position k on
From(s, k) == [j \in 1..(Len(s) - k + 1) |-> s[k + j - 1]]

SameElts(s, t) ==
    /\ Len(s) = Len(t)
    /\ \A k \in 1..Len(s) : elt_eq(s[k], t[k])

\* C23: two lists are equal iff they have the same length and are
\* elementwise equal in forward order, whatever nodes hold the elements and
\* whatever mix of push_front and push built them; ne is the negation of eq.
C23_Equality ==
    \A l1, l2 \in ListIds :
        /\ eq(Mem, l1, l2) <=> SameElts(FwdSeq(Mem, l1), FwdSeq(Mem, l2))
        /\ ne(Mem, l1, l2) <=> ~eq(Mem, l1, l2)

\* two equal lists of two elements, one built by push and the other by
\* push_front, on different nodes in a different layout
C23_Witness ==
    /\ eq(Mem, "a", "b") /\ ~ne(Mem, "a", "b")
    /\ len(Mem, "a") = 2
    /\ FwdNodes(Mem, "a")[1] < FwdNodes(Mem, "a")[2]
    /\ FwdNodes(Mem, "b")[1] > FwdNodes(Mem, "b")[2]
    /\ FwdSeq(Mem, "a")[1] # FwdSeq(Mem, "a")[2]

\* the first position at which s and t both have an element and the two do
\* not compare as equal; 0 when there is none
FirstDiff(s, t) ==
    LET n == IF Len(s) < Len(t) THEN Len(s) ELSE Len(t)
        D == {k \in 1..n : elt_partial_cmp(s[k], t[k]) # Some("Equal")}
    IN  IF D = {} THEN 0 ELSE CHOOSE k \in D : \A j \in D : k <= j

\* the lexicographic comparison of two sequences
Lexicographic(s, t) ==
    LET d == FirstDiff(s, t)
    IN  IF d # 0 THEN elt_partial_cmp(s[d], t[d])
        ELSE IF Len(s) < Len(t) THEN Some("Less")
        ELSE IF Len(s) > Len(t) THEN Some("Greater")
        ELSE Some("Equal")

StrictPrefix(s, t) ==
    /\ Len(s) < Len(t)
    /\ \A k \in 1..Len(s) : elt_eq(s[k], t[k])

\* C24: list ordering is the lexicographic comparison of the forward element
\* sequences: the first differing pair of elements decides, a strict prefix
\* is less than the longer list (so the empty list is less than every
\* non-empty one), and n <= n and n >= n hold for the empty list and every
\* list of numbers; the operators follow partial_cmp, and cmp agrees with it
\* on lists of numbers.
C24_Lexicographic ==
    \A l1, l2 \in ListIds :
        LET s == FwdSeq(Mem, l1)
            t == FwdSeq(Mem, l2)
            c == partial_cmp(Mem, l1, l2)
            less == lt(Mem, l1, l2)
            greater == gt(Mem, l1, l2)
            atmost == le(Mem, l1, l2)
            atleast == ge(Mem, l1, l2)
        IN  /\ c = Lexicographic(s, t)
            /\ less <=> c = Some("Less")
            /\ greater <=> c = Some("Greater")
            /\ atmost <=> (c = Some("Less") \/ c = Some("Equal"))
            /\ atleast <=> (c = Some("Greater") \/ c = Some("Equal"))
            /\ StrictPrefix(s, t) =>
                  /\ less /\ atmost
                  /\ gt(Mem, l2, l1) /\ ge(Mem, l2, l1)
                  /\ ~greater /\ ~atleast
            /\ NaN \notin Range(s) => le(Mem, l1, l1) /\ ge(Mem, l1, l1)
            /\ NaN \notin Range(s) \cup Range(t) => c = Some(cmp(Mem, l1, l2))

\* two lists of two numbers on differently laid out nodes that differ first
\* in the second element
C24_Witness ==
    /\ len(Mem, "a") = 2 /\ len(Mem, "b") = 2
    /\ NaN \notin Range(FwdSeq(Mem, "a")) \cup Range(FwdSeq(Mem, "b"))
    /\ FirstDiff(FwdSeq(Mem, "a"), FwdSeq(Mem, "b")) = 2
    /\ lt(Mem, "a", "b") /\ gt(Mem, "b", "a")
    /\ FwdNodes(Mem, "b")[1] > FwdNodes(Mem, "b")[2]

\* C25: when the first position at which two lists do not compare as equal
\* holds a pair of incomparable elements, the list comparison is
\* incomparable and <, >, <= and >= between the two lists are all false; an
\* earlier strictly ordered pair decides the result whatever comes later.
C25_Incomparable ==
    \A l1, l2 \in ListIds :
        LET s == FwdSeq(Mem, l1)
            t == FwdSeq(Mem, l2)
            d == FirstDiff(s, t)
        IN  d # 0 =>
              /\ elt_partial_cmp(s[d], t[d]) = None =>
                    /\ partial_cmp(Mem, l1, l2) = None
                    /\ ~lt(Mem, l1, l2) /\ ~gt(Mem, l1, l2)
                    /\ ~le(Mem, l1, l2) /\ ~ge(Mem, l1, l2)
              /\ s[d] # NaN /\ t[d] # NaN /\ s[d] < t[d] =>
                    /\ partial_cmp(Mem, l1, l2) = Some("Less")
                    /\ lt(Mem, l1, l2) /\ le(Mem, l1, l2)
                    /\ ~gt(Mem, l1, l2) /\ ~ge(Mem, l1, l2)
              /\ s[d] # NaN /\ t[d] # NaN /\ s[d] > t[d] =>
                    /\ partial_cmp(Mem, l1, l2) = Some("Greater")
                    /\ gt(Mem, l1, l2) /\ ge(Mem, l1, l2)
                    /\ ~lt(Mem, l1, l2) /\ ~le(Mem, l1, l2)

\* [x, NaN] is less than [y, NaN] for x < y, the first pair deciding before
\* the NaN is reached, and is incomparable with itself, at the NaN
C25_Witness ==
    LET s == FwdSeq(Mem, "a")
        t == FwdSeq(Mem, "b")
    IN  /\ Len(s) = 2 /\ Len(t) = 2
        /\ s[1] # NaN /\ t[1] # NaN /\ s[1] < t[1]
        /\ s[2] = NaN /\ t[2] = NaN
        /\ lt(Mem, "a", "b") /\ ~ge(Mem, "a", "b")
        /\ partial_cmp(Mem, "a", "a") = None
        /\ ~le(Mem, "a", "a") /\ ~ge(Mem, "a", "a")

\* C26: hashing feeds the hasher the list length followed by every element
\* in forward order, after whatever was written to it before; so two lists
\* with the same forward sequence give the same hash input, whether built
\* by push or by push_front.
C26_Hash ==
    \A state \in {<<>>, <<MaxLen>>} :
        LET sa == FwdSeq(Mem, "a")
            sb == FwdSeq(Mem, "b")
            ha == hash(Mem, "a", state)
            hb == hash(Mem, "b", state)
        IN  /\ ha = state \o <<Len(sa)>> \o sa
            /\ hb = state \o <<Len(sb)>> \o sb
            /\ sa = sb <=> ha = hb

\* the lists of tests::test_hash in small: one built by push, the other by
\* push_front, with the same two elements and the same hash input
C26_Witness ==
    /\ len(Mem, "a") = 2 /\ len(Mem, "b") = 2
    /\ FwdSeq(Mem, "a")[1] # FwdSeq(Mem, "a")[2]
    /\ FwdNodes(Mem, "a")[1] < FwdNodes(Mem, "a")[2]
    /\ FwdNodes(Mem, "b")[1] > FwdNodes(Mem, "b")[2]
    /\ hash(Mem, "a", <<>>) = hash(Mem, "b", <<>>)
    /\ hash(Mem, "a", <<>>) = <<2>> \o FwdSeq(Mem, "b")

(***************************************************************************)
(* Teardown, one statement at a time.  List "a" is list_from(xs) and list  *)
(* "b" list_from(ys); "a" may first be consumed in part from either end    *)
(* (it is then the list a MoveItems owns); then it is dropped, or cleared. *)
(*   call.pc       : "live", then "loop" (in the loop of Drop::drop),      *)
(*                   "reset" (after the loop), "done"                      *)
(*   call.how      : "drop" or "clear"                                     *)
(*   call.tail     : the local variable `tail` of Drop::drop               *)
(*   call.m0       : the memory when drop was entered                      *)
(*   call.released : the nodes released so far                             *)
(*   call.depth    : the largest number of nodes released by the drop of   *)
(*                   one box                                               *)
(*   call.n        : the number of turns of the loop                       *)
(* The loop and the statements after it run under weak fairness: a         *)
(* started drop keeps running.                                             *)
(***************************************************************************)
InitDrop ==
    \E xs \in SeqsUpTo(MaxLen + 1) : \E ys \in SeqsUpTo(1) :
        LET m0 == ListsFrom(xs, ys)
        IN  /\ node = m0.node /\ list = m0.list /\ ub = m0.ub
            /\ it = NoIter
            /\ ret = None
            /\ ref = [q |-> <<>>, r |-> None]
            /\ call = [f |-> "le", xs |-> xs, ys |-> ys,
                       a0 |-> FwdNodes(m0, "a"), b0 |-> FwdNodes(m0, "b"),
                       done |-> FALSE, pc |-> "live", how |-> "drop",
                       tail |-> Null, m0 |-> m0, released |-> {},
                       depth |-> 0, n |-> 0]

\* the nodes released on the way from Mem to m, added to the record
Released(m) ==
    LET gone == LiveIds(Mem) \ LiveIds(m)
    IN  [call EXCEPT !.released = @ \cup gone,
                     !.depth = IF Cardinality(gone) > @
                               THEN Cardinality(gone) ELSE @]

\* MoveItems::next on the iterator that owns the list
ConsumeFront ==
    /\ ~ub /\ call.pc = "live" /\ len(Mem, "a") > 0
    /\ LET s == MoveItems_next(Mem, move_iter(Mem, "a"))
       IN  /\ Store(s.m)
           /\ ret' = s.r
           /\ call' = Released(s.m)
    /\ UNCHANGED <<it, ref>>

\* MoveItems::next_back on the iterator that owns the list
ConsumeBack ==
    /\ ~ub /\ call.pc = "live" /\ len(Mem, "a") > 0
    /\ LET s == MoveItems_next_back(Mem, move_iter(Mem, "a"))
       IN  /\ Store(s.m)
           /\ ret' = s.r
           /\ call' = Released(s.m)
    /\ UNCHANGED <<it, ref>>

\* the list (or the MoveItems that owns it) goes out of scope, or clear()
\* assigns over it: `let mut tail = self.list_tail`
DropBegin ==
    \E how \in {"drop", "clear"} :
        /\ ~ub /\ call.pc = "live"
        /\ call' = [call EXCEPT !.pc = "loop", !.how = how, !.m0 = Mem,
                                !.tail = list["a"].list_tail]
        /\ UNCHANGED <<node, list, ub, it, ret, ref>>

\* Some(prev) => { prev.next.take(); tail = prev.prev; }
DropStep ==
    /\ ~ub /\ call.pc = "loop" /\ call.tail # Null
    /\ LET s == drop_step(Mem, call.tail)
       IN  /\ Store(s.m)
           /\ call' = [Released(s.m) EXCEPT !.tail = s.tail, !.n = @ + 1]
    /\ UNCHANGED <<it, ret, ref>>

\* None => break
DropBreak ==
    /\ ~ub /\ call.pc = "loop" /\ call.tail = Null
    /\ call' = [call EXCEPT !.pc = "reset"]
    /\ UNCHANGED <<node, list, ub, it, ret, ref>>

\* the three assignments after the loop; for clear, DList::new() is then
\* written over the dropped list
DropReset ==
    /\ ~ub /\ call.pc = "reset"
    /\ LET m == drop_reset(Mem, "a")
           w == IF call.how = "clear" THEN [m EXCEPT !.list["a"] = DList_new]
                ELSE m
       IN  /\ Store(w)
           /\ call' = [Released(w) EXCEPT !.pc = "done", !.done = TRUE]
    /\ UNCHANGED <<it, ret, ref>>

NextDrop ==
    \/ ConsumeFront \/ ConsumeBack \/ DropBegin
    \/ DropStep \/ DropBreak \/ DropReset

SpecDrop ==
    /\ InitDrop /\ [][NextDrop]_vars
    /\ WF_vars(DropStep \/ DropBreak \/ DropReset)

\* what holds at every point of a teardown
TeardownSafe ==
    /\ ~ub
    /\ call.released \subseteq Range(call.a0)
    /\ LiveIds(Mem) = (Range(call.a0) \ call.released) \cup Range(call.b0)
    /\ FwdNodes(Mem, "b") = call.b0 /\ LinksValid(Mem, "b")
    /\ call.pc = "loop" =>
          /\ call.tail # Null => node[call.tail].live
          /\ call.n <= len(call.m0, "a")
    /\ call.pc \in {"reset", "done"} => call.n = len(call.m0, "a")
    /\ call.pc = "done" =>
          /\ call.released = Range(call.a0)
          /\ list["a"] = DList_new
          /\ Mem = drop_list(call.m0, "a")
          /\ Mem = clear(call.m0, "a")

\* C27: teardown of a list of any length (Drop, also through clear and
\* through dropping a consuming iterator) releases every node exactly once,
\* never dereferences a released node while walking the prev links from the
\* tail, terminates, and leaves length 0 with head and tail absent.
C27_Teardown ==
    /\ []TeardownSafe
    /\ (call.pc = "loop") ~> (call.pc = "done")

\* a three-node list has been torn down in three turns of the loop
C27_Witness ==
    /\ call.pc = "done" /\ call.n = 3
    /\ Cardinality(call.released) = 3
    /\ list["a"] = DList_new
    /\ call.b0 # <<>>

\* the node behind the owning link p, if any, has no successor
NextAbsent(m, p) == p # Null => m.node[p].live /\ m.node[p].next = Null

\* C28: teardown is iterative: at the moment a node is released, in Drop and
\* for the nodes handed out by pop_front_node and pop_back_node, its own
\* next link is already absent, so the drop of one box never releases
\* another node, whatever the length of the list.
C28_Iterative ==
    /\ ~ub
    /\ call.depth <= 1
    /\ call.pc = "loop" /\ call.tail # Null =>
          NextAbsent(Mem, node[call.tail].next)
    /\ call.pc = "reset" => NextAbsent(Mem, list["a"].list_head)
    /\ call.pc = "live" =>
          /\ NextAbsent(pop_front_node(Mem, "a").m, pop_front_node(Mem, "a").r)
          /\ NextAbsent(pop_back_node(Mem, "a").m, pop_back_node(Mem, "a").r)

\* three nodes have been released one box at a time, the last of them the
\* head, by the assignment after the loop
C28_Witness ==
    /\ call.pc = "done" /\ call.how = "drop"
    /\ len(call.m0, "a") = 3
    /\ Cardinality(call.released) = 3
    /\ call.depth = 1

(***************************************************************************)
(* Ownership, one statement at a time.  One linking operation is run on    *)
(* list "a" = list_from(xs), with list "b" = list_from(ys) as its `other`  *)
(* where it takes one.  call.op is the operation, call.f the predicate of  *)
(* merge, call.k the number of next() calls before insert_next, call.v the *)
(* inserted value, call.m0 the memory before the call, call.pts the points *)
(* of the run, call.n the number of statements run and call.own the boxes  *)
(* the operation holds in local variables at this point.                   *)
(***************************************************************************)
OwnCalls ==
    [op : {"rotate_forward", "rotate_backward"}, xs : SeqsUpTo(MaxLen + 1),
     ys : {<<>>}, f : {"le"}, k : {0}, v : {0}]
    \cup {c \in [op : {"insert_next"}, xs : SeqsUpTo(MaxLen + 1),
                 ys : {<<>>}, f : {"le"}, k : 0..(MaxLen + 1), v : {0}] :
             c.k <= Len(c.xs)}
    \cup [op : {"insert_ordered"}, xs : SeqsUpTo(MaxLen + 1),
          ys : {<<>>}, f : {"ge"}, k : {0}, v : Values]
    \cup [op : {"append", "prepend"}, xs : SeqsUpTo(MaxLen),
          ys : SeqsUpTo(MaxLen), f : {"le"}, k : {0}, v : {0}]
    \cup [op : {"merge"}, xs : SeqsUpTo(MaxLen),
          ys : SeqsUpTo(MaxLen), f : Preds, k : {0}, v : {0}]

\* the iterator after k calls of next()
RECURSIVE Stepped(_, _, _)
Stepped(m, i, k) ==
    IF k = 0 THEN i ELSE Stepped(m, MutItems_next(m, i).i, k - 1)

PointsOf(c, m) ==
    CASE c.op = "rotate_forward" -> rotate_forward_points(m, "a")
      [] c.op = "rotate_backward" -> rotate_backward_points(m, "a")
      [] c.op = "insert_next" ->
             insert_next_points(m, Stepped(m, mut_iter(m, "a"), c.k), c.v)
      [] c.op = "insert_ordered" -> insert_when_points(m, "a", c.v, c.f)
      [] c.op = "append" -> append_points(m, "a", "b")
      [] c.op = "prepend" -> prepend_points(m, "a", "b")
      [] c.op = "merge" -> merge_points(m, "a", "b", c.f)

\* the same call as one step
ResultOf(c, m) ==
    CASE c.op = "rotate_forward" -> rotate_forward(m, "a")
      [] c.op = "rotate_backward" -> rotate_backward(m, "a")
      [] c.op = "insert_next" ->
             insert_next(m, Stepped(m, mut_iter(m, "a"), c.k), c.v).m
      [] c.op = "insert_ordered" -> insert_ordered(m, "a", c.v)
      [] c.op = "append" -> append(m, "a", "b")
      [] c.op = "prepend" -> prepend(m, "a", "b")
      [] c.op = "merge" -> merge(m, "a", "b", c.f)

\* a heap of n free cells, cell by cell
RECURSIVE FreeCells(_)
FreeCells(n) == IF n = 0 THEN <<>> ELSE Append(FreeCells(n - 1), DeadNode)

InitOwn ==
    \E c \in OwnCalls :
        LET m0 == extend(extend([node |-> FreeCells(Len(c.xs) + Len(c.ys) + 1),
                                 list |-> [a |-> DList_new, b |-> DList_new],
                                 ub |-> FALSE], "a", c.xs), "b", c.ys)
        IN  /\ node = m0.node /\ list = m0.list /\ ub = m0.ub
            /\ it = NoIter
            /\ ret = None
            /\ ref = [q |-> <<>>, r |-> None]
            /\ call = [f |-> c.f, xs |-> c.xs, ys |-> c.ys,
                       a0 |-> FwdNodes(Mem, "a"), b0 |-> FwdNodes(Mem, "b"),
                       done |-> FALSE, op |-> c.op, k |-> c.k, v |-> c.v,
                       m0 |-> Mem, pts |-> PointsOf(c, Mem), n |-> 0,
                       own |-> <<>>]

\* the next statement of the running operation
Statement ==
    /\ ~ub /\ call.n < Len(call.pts)
    /\ Store(call.pts[call.n + 1].m)
    /\ call' = [call EXCEPT !.n = @ + 1,
                            !.own = call.pts[call.n + 1].own,
                            !.done = (call.n + 1 = Len(call.pts))]
    /\ UNCHANGED <<it, ret, ref>>

RotateStatement ==
    call.op \in {"rotate_forward", "rotate_backward"} /\ Statement
InsertStatement == call.op \in {"insert_next", "insert_ordered"} /\ Statement
AppendStatement == call.op = "append" /\ Statement
PrependStatement == call.op = "prepend" /\ Statement
MergeStatement == call.op = "merge" /\ Statement

NextOwn ==
    \/ RotateStatement \/ InsertStatement \/ AppendStatement
    \/ PrependStatement \/ MergeStatement

SpecOwn == InitOwn /\ [][NextOwn]_vars

NoDup(s) == \A i, j \in 1..Len(s) : i # j => s[i] # s[j]

\* the number of owning links that hold node p: list heads, next fields of
\* allocated nodes, boxes in local variables
Owners(m, own, p) ==
    Cardinality({l \in ListIds : m.list[l].list_head = p})
      + Cardinality({q \in LiveIds(m) : m.node[q].next = p})
      + Cardinality({k \in 1..Len(own) : own[k] = p})

\* the next chain hanging from the box p
Chain(m, p) == NextChain(m, p, HeapSize(m) + 1)

\* C29 as stated: at every point every live node is in the next chain of
\* exactly one list, or is the single detached node in transit.
C29_AsStated ==
    \A p \in LiveIds(Mem) :
        Cardinality({l \in ListIds : p \in Range(FwdNodes(Mem, l))})
          + (IF call.own = <<p>> THEN 1 ELSE 0) = 1

\* C29: at every point during and after append, prepend, merge, rotate and
\* insert, each live node is held by exactly one owning link and lies in
\* exactly one place: the next chain of one list, or the next chain of one
\* of at most two boxes the operation holds in transit; no node is reachable
\* from two lists, no node occurs twice in a chain, every chain is acyclic,
\* and when the operation returns nothing is in transit.
C29_Ownership ==
    LET roots == {<<"list", l>> : l \in ListIds}
                   \cup {<<"own", k>> : k \in 1..Len(call.own)}
        at(r) == IF r[1] = "list" THEN list[r[2]].list_head
                 ELSE call.own[r[2]]
    IN  /\ ~ub
        /\ \A p \in DOMAIN node :
              Owners(Mem, call.own, p) = (IF node[p].live THEN 1 ELSE 0)
        /\ \A r \in roots :
              /\ NoDup(Chain(Mem, at(r)))
              /\ Len(Chain(Mem, at(r))) <= HeapSize(Mem)
              /\ Range(Chain(Mem, at(r))) \subseteq LiveIds(Mem)
        /\ \A p \in LiveIds(Mem) :
              Cardinality({r \in roots : p \in Range(Chain(Mem, at(r)))}) = 1
        /\ Range(FwdNodes(Mem, "a")) \cap Range(FwdNodes(Mem, "b")) = {}
        /\ Len(call.own) <= 2 /\ Null \notin Range(call.own)
        /\ call.done =>
              /\ call.own = <<>>
              /\ Mem = ResultOf(call, call.m0)
              /\ LiveIds(Mem) = Range(FwdNodes(Mem, "a"))
                                   \cup Range(FwdNodes(Mem, "b"))

\* in the middle of a merge a node popped from `other` is in transit, both
\* lists still hold nodes
C29_Witness ==
    /\ call.op = "merge" /\ ~call.done
    /\ Len(call.own) = 1
    /\ call.own[1] \in Range(call.b0)
    /\ node[call.own[1]].next = Null
    /\ len(Mem, "a") >= 1 /\ len(Mem, "b") >= 1

\* prev() right after a next() that yielded a node gives that node again and
\* the iterator as it was before the next()
NextUndone(m, i) ==
    LET s == Items_next(m, i)
        p == Items_prev(s.m, s.i)
    IN  s.r # Null => p.r = s.r /\ p.i = i /\ ~p.m.ub

\* prev_back() right after a next_back() that yielded a node gives that node
\* again and the iterator as it was before the next_back()
NextBackUndone(m, i) ==
    LET s == Items_next_back(m, i)
        p == Items_prev_back(s.m, s.i)
    IN  s.r # Null => p.r = s.r /\ p.i = i /\ ~p.m.ub

\* C30: on a read-only iterator prev() undoes next(): right after next()
\* yields an element e, the last element of the list included, prev() yields
\* e again and restores the forward cursor and the remaining count; and
\* prev_back() undoes next_back() in the same way, the first element of the
\* list included.
C30_PrevUndoesNext ==
    (it.kind = "imm" /\ ~ub) =>
        /\ NextUndone(Mem, ItemsOf(it))
        /\ NextBackUndone(Mem, ItemsOf(it))

\* what does hold: prev() undoes every next() that did not yield the last
\* node of the list, and prev_back() every next_back() that did not yield
\* the first; after those two, the cursor is null and the step back returns
\* None and leaves the iterator as it is
PrevUndoesNextInside ==
    (it.kind = "imm" /\ ~ub) =>
        LET i == ItemsOf(it)
            s == Items_next(Mem, i)
            t == Items_next_back(Mem, i)
        IN  /\ s.r # Null =>
                  IF node[s.r].next # Null THEN NextUndone(Mem, i)
                  ELSE /\ Items_prev(s.m, s.i).r = Null
                       /\ Items_prev(s.m, s.i).i = s.i
            /\ t.r # Null =>
                  IF node[t.r].prev # Null THEN NextBackUndone(Mem, i)
                  ELSE /\ Items_prev_back(t.m, t.i).r = Null
                       /\ Items_prev_back(t.m, t.i).i = t.i

\* next() has just yielded the last element of a two-element list, and
\* prev() returns None
C30_Witness ==
    /\ it.kind = "imm" /\ it.plain /\ Len(call.xs) = 2
    /\ Len(it.front) = 2 /\ it.head = Null /\ it.nelem = 0
    /\ ret = Some(call.xs[2])
    /\ Items_prev(Mem, ItemsOf(it)).r = Null

(***************************************************************************)
(* The two private insertion primitives on their own.  List "a" is         *)
(* list_from(xs) with list_from(ys) prepended, so that its nodes are not   *)
(* in address order; one new node is boxed and linked after, or before, a  *)
(* link that is null or refers to any node of the list.                    *)
(*   call.op   : "none", then "after" or "before", the primitive run       *)
(*   call.link : its link argument                                         *)
(*   call.new  : the node it was given                                     *)
(*   call.v    : the value in that node                                    *)
(*   call.a0   : the forward node chain before it ran                      *)
(*   call.head, call.tail, call.len : the list's fields before it ran      *)
(***************************************************************************)
InitInsert ==
    \E xs \in SeqsUpTo(MaxLen) : \E ys \in SeqsUpTo(MaxLen) :
        LET m0 == prepend(extend(extend(
                      [node |-> FreeCells(Len(xs) + Len(ys) + 1),
                       list |-> [a |-> DList_new, b |-> DList_new],
                       ub |-> FALSE], "a", xs), "b", ys), "a", "b")
        IN  /\ node = m0.node /\ list = m0.list /\ ub = m0.ub
            /\ it = NoIter
            /\ ret = None
            /\ ref = [q |-> <<>>, r |-> None]
            /\ call = [f |-> "le", xs |-> xs, ys |-> ys,
                       a0 |-> FwdNodes(m0, "a"), b0 |-> <<>>, done |-> FALSE,
                       op |-> "none", link |-> Null, new |-> Null, v |-> 0,
                       head |-> Null, tail |-> Null, len |-> 0]

\* the record of a primitive about to run on list "a"
InsertRecord(op, link, new, v) ==
    [call EXCEPT !.op = op, !.link = link, !.new = new, !.v = v,
                 !.a0 = FwdNodes(Mem, "a"),
                 !.head = list["a"].list_head,
                 !.tail = list["a"].list_tail,
                 !.len = list["a"].length,
                 !.done = TRUE]

\* self.insert_after_node(link, box Node::new(v))
InsertAfterCall ==
    /\ ~ub /\ ~call.done
    /\ \E link \in Range(FwdNodes(Mem, "a")) \cup {Null} : \E v \in Values :
          LET b == box_new(Mem, v)
          IN  /\ Store(insert_after_node(b.m, "a", link, b.r))
              /\ call' = InsertRecord("after", link, b.r, v)
    /\ UNCHANGED <<it, ret, ref>>

\* self.insert_before_node(link, box Node::new(v))
InsertBeforeCall ==
    /\ ~ub /\ ~call.done
    /\ \E link \in Range(FwdNodes(Mem, "a")) \cup {Null} : \E v \in Values :
          LET b == box_new(Mem, v)
          IN  /\ Store(insert_before_node(b.m, "a", link, b.r))
              /\ call' = InsertRecord("before", link, b.r, v)
    /\ UNCHANGED <<it, ret, ref>>

NextInsert == InsertAfterCall \/ InsertBeforeCall

SpecInsert == InitInsert /\ [][NextInsert]_vars

\* the position the new node must take in the chain `pre`
InsertedAt(op, pre, link) ==
    IF op = "after"
    THEN (IF link = Null THEN 1 ELSE IndexOf(pre, link) + 1)
    ELSE (IF link = Null THEN Len(pre) + 1 ELSE IndexOf(pre, link))

\* C31: insert_after_node(r, x) places x immediately after node r for every
\* node r of the list, at the front when r is null, and as the new tail,
\* with the list's tail reference updated, when r is the tail;
\* insert_before_node(r, x) places x immediately before r for every node r,
\* at the front when r is the head, and at the end when r is null; in every
\* case the length increases by exactly one (and the chain reads the same
\* backwards, through the prev links).
C31_InsertNode ==
    call.op # "none" =>
        LET pre == call.a0
            post == FwdNodes(Mem, "a")
            x == call.new
            r == call.link
        IN  /\ ~ub
            /\ x \notin Range(pre)
            /\ node[x].live /\ node[x].value = call.v
            /\ post = InsertAt(pre, InsertedAt(call.op, pre, r), x)
            /\ len(Mem, "a") = call.len + 1
            /\ len(Mem, "a") = Len(post)
            /\ PrevLinksOk(Mem, "a")
            /\ BackNodes(Mem, "a") = Reverse(post)
            /\ list["a"].list_head = post[1]
            /\ list["a"].list_tail = Last(post)
            /\ (call.op = "after" /\ r = Null) =>
                  post = <<x>> \o pre /\ list["a"].list_head = x
            /\ (call.op = "after" /\ r # Null) =>
                  /\ node[r].next = x /\ node[x].prev = r
                  /\ r = call.tail =>
                        /\ post = pre \o <<x>>
                        /\ list["a"].list_tail = x /\ node[x].next = Null
                  /\ r # call.tail => list["a"].list_tail = call.tail
            /\ (call.op = "before" /\ r = Null) =>
                  post = pre \o <<x>> /\ list["a"].list_tail = x
            /\ (call.op = "before" /\ r # Null) =>
                  /\ node[x].next = r /\ node[r].prev = x
                  /\ r = call.head =>
                        /\ post = <<x>> \o pre
                        /\ list["a"].list_head = x /\ node[x].prev = Null
                  /\ r # call.head => list["a"].list_head = call.head

\* an insertion before a node in the middle of a list whose nodes are not
\* in address order
C31_Witness ==
    /\ call.op = "before"
    /\ Len(call.a0) >= 3
    /\ call.link \notin {Null, call.head, call.tail}
    /\ call.a0[1] > Last(call.a0)
    /\ len(Mem, "a") = Len(call.a0) + 1
    /\ FwdNodes(Mem, "a")[IndexOf(call.a0, call.link)] = call.new

(***************************************************************************)
(* merge, one turn of its loop at a time.  List "a" is list_from(xs), the  *)
(* receiver, and list "b" list_from(ys), the argument; call.f is the       *)
(* predicate.  `it` is the MutItems that merge creates over self.          *)
(*   call.pc : "idle" (before the lists are built), "start" (merge is      *)
(*             entered), "loop" (at the head of the loop), "break" (left   *)
(*             the loop, before self.append(other)), "return" (at the      *)
(*             early return, before other is dropped), "done"              *)
(*   call.n  : the number of turns of the loop that went round again       *)
(*   call.m0 : the memory when merge was entered                           *)
(***************************************************************************)
InitMergeRun ==
    /\ node = FreeCells(0)
    /\ list = [a |-> DList_new, b |-> DList_new]
    /\ ub = FALSE
    /\ it = NoIter
    /\ ret = None
    /\ ref = [q |-> <<>>, r |-> None]
    /\ call = [f |-> "le", xs |-> <<>>, ys |-> <<>>, a0 |-> <<>>, b0 |-> <<>>,
               done |-> FALSE, pc |-> "idle", n |-> 0, m0 |-> Mem]

\* let mut m = list_from(xs); let n = list_from(ys); with the predicate f
MergeSetup ==
    /\ call.pc = "idle"
    /\ \E in \in (SeqsUpTo(MaxLen) \X SeqsUpTo(MaxLen))
                    \cup {<<ExampleSelf, ExampleOther>>} :
         \E f \in Preds :
           LET m0 == extend(extend(
                         [node |-> FreeCells(Len(in[1]) + Len(in[2])),
                          list |-> [a |-> DList_new, b |-> DList_new],
                          ub |-> FALSE], "a", in[1]), "b", in[2])
           IN  /\ Store(m0)
               /\ call' = [call EXCEPT !.f = f, !.xs = in[1], !.ys = in[2],
                                       !.a0 = FwdNodes(m0, "a"),
                                       !.b0 = FwdNodes(m0, "b"),
                                       !.pc = "start", !.m0 = m0]
    /\ UNCHANGED <<it, ret, ref>>

\* let mut it = self.mut_iter();
MergeBegin ==
    /\ ~ub /\ call.pc = "start"
    /\ it' = [kind |-> "mut", ins |-> {}] @@ mut_iter(Mem, "a")
    /\ call' = [call EXCEPT !.pc = "loop"]
    /\ UNCHANGED <<node, list, ub, ret, ref>>

\* one turn of the loop: the match on (it.peek_next(), other.front()), then
\* it.next() or it.insert_next_node(other.pop_front_node().unwrap())
MergeTurn ==
    /\ ~ub /\ call.pc = "loop"
    /\ \E s \in {merge_iter(Mem, Cursor(it), "b", call.f)} :
          /\ Store(s.m)
          /\ it' = WithCursor(it, s.i)
          /\ call' = [call EXCEPT !.pc = s.ctl,
                                  !.n = IF s.ctl = "loop" THEN @ + 1 ELSE @]
    /\ UNCHANGED <<ret, ref>>

\* self.append(other), the iterator's borrow having ended
MergeAppend ==
    /\ ~ub /\ call.pc = "break"
    /\ Store(append(Mem, "a", "b"))
    /\ it' = NoIter
    /\ call' = [call EXCEPT !.pc = "done", !.done = TRUE]
    /\ UNCHANGED <<ret, ref>>

\* return: `other`, passed by value, is dropped
MergeReturn ==
    /\ ~ub /\ call.pc = "return"
    /\ Store(drop_list(Mem, "b"))
    /\ it' = NoIter
    /\ call' = [call EXCEPT !.pc = "done", !.done = TRUE]
    /\ UNCHANGED <<ret, ref>>

NextMergeRun ==
    MergeSetup \/ MergeBegin \/ MergeTurn \/ MergeAppend \/ MergeReturn

\* merge is synchronous code: a started call keeps running
SpecMergeRun ==
    /\ InitMergeRun /\ [][NextMergeRun]_vars
    /\ WF_vars(MergeBegin \/ MergeTurn \/ MergeAppend \/ MergeReturn)

\* what holds at every point of a run of merge: the turns so far, the
\* remaining-count of self's cursor and the length of other add up to
\* len(self) + len(other) as they were on entry
MergeBounded ==
    /\ ~ub
    /\ call.n <= Len(call.xs) + Len(call.ys)
    /\ call.pc = "loop" =>
          call.n + it.nelem + len(Mem, "b") = Len(call.xs) + Len(call.ys)
    /\ call.pc = "break" => it.nelem = 0 /\ len(Mem, "b") > 0
    /\ call.pc = "return" => len(Mem, "b") = 0
    /\ call.pc = "done" =>
          /\ Mem = merge(call.m0, "a", "b", call.f)
          /\ len(Mem, "a") = Len(call.xs) + Len(call.ys)
          /\ list["b"] = DList_new

\* a turn of the loop that goes round again either advances self's cursor
\* or removes the front node of other, and not both
MergeProgress ==
    (call.pc = "loop" /\ call'.pc = "loop") =>
        \/ /\ it'.nelem = it.nelem - 1
           /\ it'.head = node[it.head].next
           /\ list' = list
        \/ /\ it'.nelem = it.nelem /\ it'.head = it.head
           /\ list'["b"].length = list["b"].length - 1
           /\ list'["b"].list_head = node[list["b"].list_head].next
           /\ list'["a"].length = list["a"].length + 1

\* C32: merge terminates for every pair of finite lists and every
\* predicate: each turn of the loop that goes round again either advances
\* self's cursor (the remaining-count decreases by one) or removes the front
\* node of other (other's length decreases by one), so the loop goes round
\* at most len(self) + len(other) times before returning or appending the
\* remainder, and the call then completes.
C32_MergeTerminates ==
    /\ []MergeBounded
    /\ [][MergeProgress]_vars
    /\ (call.pc = "start") ~> (call.pc = "done")

\* a merge of two two-element lists has completed after three turns of the
\* loop, two that advanced the cursor and one that took a node from other,
\* and has appended the rest of other
C32_Witness ==
    /\ call.pc = "done" /\ call.n = 3
    /\ Len(call.xs) = 2 /\ Len(call.ys) = 2
    /\ FwdNodes(Mem, "a")
          = <<call.a0[1], call.b0[1], call.a0[2], call.b0[2]>>

=============================================================================
